---------------------------- MODULE Spec2Model ----------------------------
(***************************************************************************)
(* State-machine model of the image pipeline of line_sticker_create        *)
(* (src/src/utils/imageUtils.js).                                          *)
(*                                                                         *)
(* A bitmap is the RGBA array that ctx.getImageData hands to the code      *)
(* (`data`), held here as a function from the pixel index y*width+x to a   *)
(* record [r, g, b, a]; byte offset i of the source is pixel i/4.          *)
(***************************************************************************)
EXTENDS Integers, Sequences, FiniteSets, TLC

(***************************************************************************)
(* Bounds of the model.                                                    *)
(***************************************************************************)
\* largest width*height of an enumerated input bitmap
MaxArea == 9
\* largest width*height of a bitmap that is processed with a mask
MaxMaskArea == 3

(***************************************************************************)
(* Pixel values used to build input bitmaps.                               *)
(***************************************************************************)
Black == [r |-> 0, g |-> 0, b |-> 0, a |-> 255]
White == [r |-> 255, g |-> 255, b |-> 255, a |-> 255]
\* a near-white, half-transparent pixel: r+g+b = 723, so avg = 241
Tint == [r |-> 250, g |-> 240, b |-> 233, a |-> 128]

\* <<foreground, background>> of the two-colour input bitmaps
ColourPairs == {<<White, Black>>, <<White, Tint>>, <<Tint, Black>>}

\* thresholds a caller may pass (the default 240, the ends of 0..255, and
\* values outside 0..255)
Thresholds == {-1, 0, 240, 241, 255, 256}

\* values of a mask pixel (imageUtils.js line 491)
MASK_PROTECT == 0
MASK_UNSET == 128
MASK_DELETE == 255
MaskValues == {MASK_PROTECT, MASK_UNSET, MASK_DELETE}
\* maskData = null
NoMask == <<>>
\* the promise is not resolved
NoResult == <<>>

VARIABLES
    \* ---- removeBackgroundSimple ----
    pc,          \* position inside removeBackgroundSimple
    promise,     \* "pending" | "resolved" | "rejected"
    result,      \* the bitmap the promise was resolved with, or NoResult
    img,         \* the input: [ok, width, height, data]; ~ok: onerror fires
    width,       \* canvas.width
    height,      \* canvas.height
    data,        \* imageData.data, mutated in place
    threshold,   \* the threshold argument
    maskData,    \* NoMask, or the mask value of every pixel
    toRemove,    \* Uint8Array(width*height)
    visited,     \* Uint8Array(width*height)
    queue,       \* the BFS work list
    dequeued,    \* number of queue.shift() calls so far
    \* ---- createGrid8 ----
    gridPc,      \* "call": not yet called; "loading"; "done"
    gridPromise, \* "pending" | "resolved" | "rejected"
    gridResult,  \* the canvas the promise was resolved with, or NoResult
    gridError,   \* the Error the promise was rejected with, or NoError
    images,      \* the images argument: a sequence of [ok, width, height]
    cellWidth,   \* the cellWidth argument
    cellHeight,  \* the cellHeight argument
    canvas,      \* [width, height, drawn]: drawn is the set of drawImage
                 \* calls made on the white fill (their order matters
                 \* only where two of their rectangles overlap)
    loadedCount, \* let loadedCount
    totalImages, \* const totalImages
    resolveCalls, \* number of calls of resolve() so far
    loading,     \* indexes (from 0) whose img.src is set and whose
                 \* onload/onerror has not run yet
    \* ---- splitGrid8, removeGridLines ----
    splitPc,         \* "call" | "erasing" | "await" | "loading" | "done"
    splitPromise,    \* the promise of splitGrid8
    cells,           \* the array the promise was resolved with
    splitError,      \* what the promise was rejected with, or NoError
    gridImage,       \* the bitmap behind gridImageDataUrl
    splitCellWidth,  \* the cellWidth argument of splitGrid8
    splitCellHeight, \* the cellHeight argument of splitGrid8
    linesPromise,    \* the promise of removeGridLines
    cleaned,         \* the bitmap behind cleanedImageDataUrl
    sourceImg,       \* the bitmap the cells are cropped from
    composedFrom,    \* the sources createGrid8 composed gridImage from,
                     \* or NotComposed
    \* ---- App.jsx: state of the component ----
    count,                \* number of stickers selected
    descriptions,         \* descriptions.length
    gridImages,
    processedGridImages,
    cutImages,
    mainImage,
    tabImage,
    backgroundThreshold,
    processingBackground,
    appLoading,           \* the state `loading`
    currentStep,
    \* ---- App.jsx: a run of handleGenerateStickers ----
    genPc,            \* "idle" | "request" | "awaitGrid" | "backoff" |
                      \* "cooldown" | "removing"
    genCount,         \* `count` of the render the handler was created in
    genDescriptions,  \* `descriptions.length` of that render
    genThreshold,     \* `backgroundThreshold` of that render
    genGridImages,    \* `gridImages` of that render
    gridIndex,
    retryCount,
    allGridImages,
    initialProcessed,
    inFlight,         \* grids whose generateGrid8Image call is pending
    cooled,           \* the wait before the grid gridIndex has elapsed
    \* ---- App.jsx: runs of background removal of step 7 ----
    bgRuns,           \* [grids, threshold] of each run in flight
    \* ---- App.jsx: a run of handleSplitGrids ----
    cutPc,            \* "idle" | "cutting" | "main" | "tab"
    cutCount,         \* `count` of the render the handler was created in
    cutInput,         \* `processedGridImages` of that render
    cutIndex,         \* gridIndex of handleSplitGrids
    allCutImages,
    \* ---- App.jsx: the user ----
    userEvents,       \* what the user has done so far
    \* ---- generateImageDescriptionsWithText ----
    descPc,           \* "idle" | "call" | "race" | "backoff" | "parse" |
                      \* "additional" | "returned" | "thrown"
    descCount,        \* the count argument
    excludedTexts,    \* the excludedTexts argument, as a set
    descRetryCount,   \* let retryCount
    pendingRequests,  \* attempts whose generateContent has not settled
    racing,           \* the attempt whose Promise.race is awaited, or 0
    text,             \* let text: NoText, or [from, late, blank]: the attempt
                      \* it is the answer of, and whether that attempt
                      \* had timed out when the answer came
    items,
    usedTexts,
    descResult,       \* what the function returned
    \* ---- removeGridLines, pixel by pixel ----
    erPc,             \* "idle" | "call" | "vertical" | "horizontal" |
                      \* "endPass" | "done"
    erCellWidth,      \* the cellWidth argument
    erCellHeight,     \* the cellHeight argument
    erInput,          \* the pixels of the image that was loaded
    erData,           \* imageData.data, rewritten in place
    erBg,             \* bgR, bgG, bgB
    erPass,           \* let pass
    erY,              \* y of the vertical scan
    erOffset,         \* offset of the scan in progress
    erLine,           \* the horizontal line in progress: lineY is
                      \* erLine * cellHeight
    erX               \* x of the horizontal scan

rbVars == <<pc, promise, result, img, width, height, data,
            threshold, maskData, toRemove, visited, queue, dequeued>>

gridVars == <<gridPc, gridPromise, gridResult, gridError, images, cellWidth,
              cellHeight, canvas, loadedCount, totalImages, resolveCalls,
              loading>>

splitVars == <<splitPc, splitPromise, cells, splitError, gridImage,
               splitCellWidth, splitCellHeight, linesPromise, cleaned,
               sourceImg, composedFrom>>

genLocals == <<genPc, genCount, genDescriptions, genThreshold, genGridImages, gridIndex,
               retryCount, allGridImages, initialProcessed, inFlight,
               cooled>>
cutLocals == <<cutPc, cutCount, cutInput, cutIndex, allCutImages>>
appState == <<count, descriptions, gridImages, processedGridImages,
              cutImages, mainImage, tabImage, backgroundThreshold,
              processingBackground, appLoading, currentStep>>
appVars == <<appState, genLocals, cutLocals, bgRuns, userEvents>>

descVars == <<descPc, descCount, excludedTexts, descRetryCount,
              pendingRequests, racing, text, items, usedTexts, descResult>>

eraseVars == <<erPc, erCellWidth, erCellHeight, erInput, erData, erBg,
               erPass, erY, erOffset, erLine, erX>>

vars == <<rbVars, gridVars, splitVars, appVars, descVars, eraseVars>>

-----------------------------------------------------------------------------
(***************************************************************************)
(* removeBackgroundSimple: helpers                                         *)
(***************************************************************************)
Pixels(w, h) == 0 .. (w * h - 1)

XOf(i, w) == i % w
YOf(i, w) == i \div w

\* (mutant) the comparison turned round: avg < threshold
AvgAbove_Below(p, t) == p.r + p.g + p.b < 3 * t

\* avg = (r + g + b) / 3; avg > threshold.  For integer operands the
\* floating-point comparison (r+g+b)/3 > t is exactly r+g+b > 3*t.
AvgAbove(p, t) == p.r + p.g + p.b > 3 * t

\* (mutant) every pixel seeds: a global threshold instead of a border flood
IsBorder_Everywhere(x, y, w, h) == TRUE

\* x === 0 || x === width - 1 || y === 0 || y === height - 1
IsBorder(x, y, w, h) == x = 0 \/ x = w - 1 \/ y = 0 \/ y = h - 1

\* The seeding scan (y outer, x inner): the state after pixels 0..i-1 were
\* scanned is st; scan pixel i and go on.
RECURSIVE SeedFrom(_, _, _, _, _, _)
SeedFrom(i, st, d, w, h, t) ==
    IF i >= w * h THEN st
    ELSE LET x == XOf(i, w)
             y == YOf(i, w)
         IN  IF IsBorder(x, y, w, h) /\ AvgAbove(d[i], t)
             THEN SeedFrom(i + 1,
                           [queue |-> Append(st.queue, [x |-> x, y |-> y]),
                            toRemove |-> [st.toRemove EXCEPT ![y * w + x] = 1],
                            visited |-> [st.visited EXCEPT ![y * w + x] = 1]],
                           d, w, h, t)
             ELSE SeedFrom(i + 1, st, d, w, h, t)

EmptyMarks(w, h) == [i \in Pixels(w, h) |-> 0]

Seed(d, w, h, t) ==
    SeedFrom(0, [queue |-> <<>>, toRemove |-> EmptyMarks(w, h),
                 visited |-> EmptyMarks(w, h)], d, w, h, t)

\* (mutant) the neighbour examined whether or not it was visited
VisitNeighbour_Revisits(st, nx, ny, d, w, h, t) ==
    IF nx >= 0 /\ nx < w /\ ny >= 0 /\ ny < h
    THEN LET idx == ny * w + nx
         IN  IF AvgAbove(d[idx], t)
             THEN [queue |-> Append(st.queue, [x |-> nx, y |-> ny]),
                   toRemove |-> [st.toRemove EXCEPT ![idx] = 1],
                   visited |-> [st.visited EXCEPT ![idx] = 1]]
             ELSE [st EXCEPT !.visited[idx] = 1]
    ELSE st

\* The body of `for (const {dx, dy} of directions)` for one neighbour.
VisitNeighbour(st, nx, ny, d, w, h, t) ==
    IF nx >= 0 /\ nx < w /\ ny >= 0 /\ ny < h
    THEN LET idx == ny * w + nx
         IN  IF st.visited[idx] = 0
             THEN IF AvgAbove(d[idx], t)
                  THEN [queue |-> Append(st.queue, [x |-> nx, y |-> ny]),
                        toRemove |-> [st.toRemove EXCEPT ![idx] = 1],
                        visited |-> [st.visited EXCEPT ![idx] = 1]]
                  ELSE [st EXCEPT !.visited[idx] = 1]
             ELSE st
    ELSE st

\* (mutant) the iteration without the direction {dx: 0, dy: 1}
BfsIteration_NoDown(st, d, w, h, t) ==
    LET head == Head(st.queue)
        s0 == [st EXCEPT !.queue = Tail(st.queue)]
        s1 == VisitNeighbour(s0, head.x - 1, head.y, d, w, h, t)
        s2 == VisitNeighbour(s1, head.x + 1, head.y, d, w, h, t)
    IN  VisitNeighbour(s2, head.x, head.y - 1, d, w, h, t)

\* One iteration of `while (queue.length > 0)`: shift, then the four
\* directions in the order left, right, up, down.
BfsIteration(st, d, w, h, t) ==
    LET head == Head(st.queue)
        s0 == [st EXCEPT !.queue = Tail(st.queue)]
        s1 == VisitNeighbour(s0, head.x - 1, head.y, d, w, h, t)
        s2 == VisitNeighbour(s1, head.x + 1, head.y, d, w, h, t)
        s3 == VisitNeighbour(s2, head.x, head.y - 1, d, w, h, t)
    IN  VisitNeighbour(s3, head.x, head.y + 1, d, w, h, t)

\* The whole while loop.
RECURSIVE BfsLoop(_, _, _, _, _)
BfsLoop(st, d, w, h, t) ==
    IF st.queue = <<>> THEN st
    ELSE BfsLoop(BfsIteration(st, d, w, h, t), d, w, h, t)

\* The marks removeBackgroundSimple computes for a bitmap and a threshold.
FloodFill(d, w, h, t) == BfsLoop(Seed(d, w, h, t), d, w, h, t).toRemove

\* (mutant) a removed pixel is cleared whole, not only its alpha
ApplyRemove_ClearPixel(d, marks) ==
    [i \in DOMAIN d |->
        IF marks[i] = 1 THEN [r |-> 0, g |-> 0, b |-> 0, a |-> 0] ELSE d[i]]

\* if (toRemove[idx]) data[i + 3] = 0
ApplyRemove(d, marks) ==
    [i \in DOMAIN d |-> IF marks[i] = 1 THEN [d[i] EXCEPT !.a = 0] ELSE d[i]]

\* The mask loop runs in index order and throws a ReferenceError at the
\* first pixel whose mask value is 0: `originalData` is declared nowhere.
FirstProtect(m) ==
    IF \E i \in DOMAIN m : m[i] = MASK_PROTECT
    THEN CHOOSE i \in DOMAIN m :
            /\ m[i] = MASK_PROTECT
            /\ \A j \in DOMAIN m : m[j] = MASK_PROTECT => i <= j
    ELSE -1

\* data after the mask loop ran over the pixels before index `stop`
ApplyMaskUpTo(d, m, stop) ==
    [i \in DOMAIN d |->
        IF i < stop /\ m[i] = MASK_DELETE THEN [d[i] EXCEPT !.a = 0] ELSE d[i]]

-----------------------------------------------------------------------------
(***************************************************************************)
(* removeBackgroundSimple: inputs                                          *)
(***************************************************************************)
TwoColour(w, h, pair, fg) ==
    [i \in Pixels(w, h) |-> IF i \in fg THEN pair[1] ELSE pair[2]]

\* white border, 1px white moat, black interior (5x5, interior = centre)
MoatBitmap == [i \in Pixels(5, 5) |-> IF i = 12 THEN Black ELSE White]

\* white border, closed black ring, white centre (5x5)
RingBitmap ==
    [i \in Pixels(5, 5) |->
        IF i \in {6, 7, 8, 11, 13, 16, 17, 18} THEN Black ELSE White]

Masks(w, h) == [Pixels(w, h) -> MaskValues]

\* an image that does not decode
BrokenImage == [ok |-> FALSE, width |-> 0, height |-> 0, data |-> <<>>]

Image(w, h, d) == [ok |-> TRUE, width |-> w, height |-> h, data |-> d]

RBInit ==
    /\ pc = "load"
    /\ promise = "pending"
    /\ result = NoResult
    /\ threshold \in Thresholds
    /\ \/ /\ img = BrokenImage
          /\ maskData = NoMask
       \/ \E w \in 1 .. MaxArea, h \in 1 .. MaxArea :
             /\ w * h <= MaxArea
             /\ \E pair \in ColourPairs, fg \in SUBSET Pixels(w, h) :
                   img = Image(w, h, TwoColour(w, h, pair, fg))
             /\ \/ maskData = NoMask
                \/ /\ w * h <= MaxMaskArea
                   /\ maskData \in Masks(w, h)
       \/ /\ img \in {Image(5, 5, MoatBitmap), Image(5, 5, RingBitmap)}
          /\ maskData = NoMask
    /\ width = 0
    /\ height = 0
    /\ data = <<>>
    /\ toRemove = <<>>
    /\ visited = <<>>
    /\ queue = <<>>
    /\ dequeued = 0

-----------------------------------------------------------------------------
(***************************************************************************)
(* removeBackgroundSimple: steps                                           *)
(***************************************************************************)
\* img.onerror = reject
RB_OnError ==
    /\ pc = "load" /\ ~img.ok
    /\ promise' = "rejected"
    /\ pc' = "done"
    /\ UNCHANGED <<gridVars, splitVars, appVars, descVars, eraseVars>>
    /\ UNCHANGED <<result, img, width, height, data, threshold, maskData,
                   toRemove, visited, queue, dequeued>>

\* img.onload, up to the end of the seeding loops
RB_OnLoad ==
    /\ pc = "load" /\ img.ok
    /\ width' = img.width
    /\ height' = img.height
    /\ data' = img.data
    /\ LET st == Seed(img.data, img.width, img.height, threshold)
       IN  /\ queue' = st.queue
           /\ toRemove' = st.toRemove
           /\ visited' = st.visited
    /\ pc' = "bfs"
    /\ UNCHANGED <<gridVars, splitVars, appVars, descVars, eraseVars>>
    /\ UNCHANGED <<promise, result, img, threshold, maskData, dequeued>>

\* one iteration of the while loop
RB_Bfs ==
    /\ pc = "bfs" /\ queue # <<>>
    /\ LET st == BfsIteration([queue |-> queue, toRemove |-> toRemove,
                               visited |-> visited],
                              data, width, height, threshold)
       IN  /\ queue' = st.queue
           /\ toRemove' = st.toRemove
           /\ visited' = st.visited
    /\ dequeued' = dequeued + 1
    /\ UNCHANGED <<gridVars, splitVars, appVars, descVars, eraseVars>>
    /\ UNCHANGED <<pc, promise, result, img, width, height, data,
                   threshold, maskData>>

\* the loop that applies toRemove
RB_Apply ==
    /\ pc = "bfs" /\ queue = <<>>
    /\ data' = ApplyRemove(data, toRemove)
    /\ pc' = IF maskData # NoMask THEN "mask" ELSE "resolve"
    /\ UNCHANGED <<gridVars, splitVars, appVars, descVars, eraseVars>>
    /\ UNCHANGED <<promise, result, img, width, height, threshold,
                   maskData, toRemove, visited, queue, dequeued>>

\* if (maskData) { ... }: the loop runs to its end, or throws inside onload
\* (an exception in an event handler settles nothing: the promise stays
\* pending)
RB_Mask ==
    /\ pc = "mask"
    /\ LET stop == FirstProtect(maskData)
       IN  IF stop >= 0
           THEN /\ data' = ApplyMaskUpTo(data, maskData, stop)
                /\ pc' = "threw"
           ELSE /\ data' = ApplyMaskUpTo(data, maskData, width * height)
                /\ pc' = "resolve"
    /\ UNCHANGED <<gridVars, splitVars, appVars, descVars, eraseVars>>
    /\ UNCHANGED <<promise, result, img, width, height, threshold,
                   maskData, toRemove, visited, queue, dequeued>>

\* ctx.putImageData(imageData, 0, 0); resolve(canvas.toDataURL('image/png'))
RB_Resolve ==
    /\ pc = "resolve"
    /\ promise' = "resolved"
    /\ result' = Image(width, height, data)
    /\ pc' = "done"
    /\ UNCHANGED <<gridVars, splitVars, appVars, descVars, eraseVars>>
    /\ UNCHANGED <<img, width, height, data, threshold, maskData,
                   toRemove, visited, queue, dequeued>>

RBNext ==
    \/ RB_OnError
    \/ RB_OnLoad
    \/ RB_Bfs
    \/ RB_Apply
    \/ RB_Mask
    \/ RB_Resolve

\* removeBackgroundSimple is not running
RBIdle ==
    /\ pc = "idle"
    /\ promise = "pending"
    /\ result = NoResult
    /\ img = BrokenImage
    /\ width = 0
    /\ height = 0
    /\ data = <<>>
    /\ threshold = 240
    /\ maskData = NoMask
    /\ toRemove = <<>>
    /\ visited = <<>>
    /\ queue = <<>>
    /\ dequeued = 0

-----------------------------------------------------------------------------
(***************************************************************************)
(* createGrid8                                                             *)
(***************************************************************************)
\* at most this many images are placed (Math.min(images.length, 8))
GridSlots == 8

\* bounds: number of images passed, cell sides, source image sides
MaxImages == 9
MaxCell == 2
MaxSource == 2

NoError == "none"
\* new Error('沒有圖片可生成'): there is no image to generate from
EmptyInputError == "EmptyInputError"

Min(a, b) == IF a <= b THEN a ELSE b

\* (mutant) the canvas laid out as 4 columns by 2 rows
NewCanvas_FourColumns(cw, ch) ==
    [width |-> cw * 4, height |-> ch * 2, drawn |-> {}]

\* canvas.width = cellWidth * 2; canvas.height = cellHeight * 4; white fill
NewCanvas(cw, ch) == [width |-> cw * 2, height |-> ch * 4, drawn |-> {}]

\* (mutant) the cells filled column by column: col = index div 4
DrawCall_ColumnMajor(index, im, cw, ch) ==
    LET col == index \div 4
        row == index % 4
        x == col * cw
        y == row * ch
        byWidth == cw * im.height <= ch * im.width
        den == IF byWidth THEN im.width ELSE im.height
        sw == IF byWidth THEN im.width * cw ELSE im.width * ch
        sh == IF byWidth THEN im.height * cw ELSE im.height * ch
    IN  [index |-> index, den |-> 2 * den,
         offsetX |-> 2 * den * x + (den * cw - sw),
         offsetY |-> 2 * den * y + (den * ch - sh),
         scaledWidth |-> 2 * sw,
         scaledHeight |-> 2 * sh]

\* The arguments of ctx.drawImage(img, offsetX, offsetY, scaledWidth,
\* scaledHeight) for images[index], as exact fractions over `den`:
\* scale = min(cellWidth / img.width, cellHeight / img.height).
DrawCall(index, im, cw, ch) ==
    LET col == index % 2
        row == index \div 2
        x == col * cw
        y == row * ch
        byWidth == cw * im.height <= ch * im.width
        den == IF byWidth THEN im.width ELSE im.height
        sw == IF byWidth THEN im.width * cw ELSE im.width * ch
        sh == IF byWidth THEN im.height * cw ELSE im.height * ch
    IN  [index |-> index, den |-> 2 * den,
         offsetX |-> 2 * den * x + (den * cw - sw),
         offsetY |-> 2 * den * y + (den * ch - sh),
         scaledWidth |-> 2 * sw,
         scaledHeight |-> 2 * sh]

GridIdle ==
    /\ gridPc = "idle"
    /\ gridPromise = "pending"
    /\ gridResult = NoResult
    /\ gridError = NoError
    /\ images = <<>>
    /\ cellWidth = 370
    /\ cellHeight = 320
    /\ canvas = NoResult
    /\ loadedCount = 0
    /\ totalImages = 0
    /\ resolveCalls = 0
    /\ loading = {}

\* the sources of one call: all of one size, at most one of them broken
GridInit ==
    /\ gridPc = "call"
    /\ gridPromise = "pending"
    /\ gridResult = NoResult
    /\ gridError = NoError
    /\ cellWidth \in 1 .. MaxCell
    /\ cellHeight \in 1 .. MaxCell
    /\ \E n \in 0 .. MaxImages, w \in 1 .. MaxSource, h \in 1 .. MaxSource,
          bad \in 0 .. MaxImages :
          images = [k \in 1 .. n |->
                       [ok |-> k # bad, width |-> w, height |-> h]]
    /\ canvas = NoResult
    /\ loadedCount = 0
    /\ totalImages = 0
    /\ resolveCalls = 0
    /\ loading = {}

\* (mutant) the executor without the `totalImages === 0` check
Grid_Call_NoEmptyCheck ==
    /\ gridPc = "call"
    /\ canvas' = NewCanvas(cellWidth, cellHeight)
    /\ loadedCount' = 0
    /\ totalImages' = Min(Len(images), GridSlots)
    /\ gridPc' = "loading"
    /\ loading' = {k \in 0 .. Len(images) - 1 : k < GridSlots}
    /\ UNCHANGED <<gridPromise, gridError>>
    /\ UNCHANGED <<gridResult, images, cellWidth, cellHeight, resolveCalls>>
    /\ UNCHANGED <<rbVars, splitVars, appVars, descVars, eraseVars>>

\* The promise executor: the canvas, the count, the empty check, and the
\* forEach that sets img.src of the first 8 images.
Grid_Call ==
    /\ gridPc = "call"
    /\ canvas' = NewCanvas(cellWidth, cellHeight)
    /\ loadedCount' = 0
    /\ totalImages' = Min(Len(images), GridSlots)
    /\ IF Min(Len(images), GridSlots) = 0
       THEN /\ gridPromise' = "rejected"
            /\ gridError' = EmptyInputError
            /\ gridPc' = "done"
            /\ loading' = {}
       ELSE /\ gridPc' = "loading"
            /\ loading' = {k \in 0 .. Len(images) - 1 : k < GridSlots}
            /\ UNCHANGED <<gridPromise, gridError>>
    /\ UNCHANGED <<gridResult, images, cellWidth, cellHeight, resolveCalls>>
    /\ UNCHANGED <<rbVars, splitVars, appVars, descVars, eraseVars>>

\* loadedCount++; if (loadedCount === totalImages) resolve(canvas.toDataURL())
Grid_Loaded(k, cv) ==
    /\ loadedCount' = loadedCount + 1
    /\ loading' = loading \ {k}
    /\ IF loadedCount + 1 = totalImages
       THEN /\ gridPromise' = IF gridPromise = "pending" THEN "resolved"
                              ELSE gridPromise
            /\ gridResult' = IF gridPromise = "pending" THEN cv ELSE gridResult
            /\ resolveCalls' = resolveCalls + 1
            /\ gridPc' = "done"
       ELSE UNCHANGED <<gridPromise, gridResult, gridPc, resolveCalls>>

\* img.onload of images[k]
Grid_OnLoad(k) ==
    /\ gridPc = "loading" /\ k \in loading /\ images[k + 1].ok
    /\ LET cv == [canvas EXCEPT !.drawn =
                     @ \cup {DrawCall(k, images[k + 1], cellWidth, cellHeight)}]
       IN  /\ canvas' = cv
           /\ Grid_Loaded(k, cv)
    /\ UNCHANGED <<gridError, images, cellWidth, cellHeight, totalImages>>
    /\ UNCHANGED <<rbVars, splitVars, appVars, descVars, eraseVars>>

\* (mutant) a failed load is dropped without being counted
Grid_OnError_NotCounted(k) ==
    /\ gridPc = "loading" /\ k \in loading /\ ~images[k + 1].ok
    /\ loading' = loading \ {k}
    /\ UNCHANGED <<gridPromise, gridResult, gridPc, resolveCalls, loadedCount>>
    /\ UNCHANGED <<canvas, gridError, images, cellWidth, cellHeight, totalImages>>
    /\ UNCHANGED <<rbVars, splitVars, appVars, descVars, eraseVars>>

\* img.onerror of images[k]
Grid_OnError(k) ==
    /\ gridPc = "loading" /\ k \in loading /\ ~images[k + 1].ok
    /\ Grid_Loaded(k, canvas)
    /\ UNCHANGED <<canvas, gridError, images, cellWidth, cellHeight, totalImages>>
    /\ UNCHANGED <<rbVars, splitVars, appVars, descVars, eraseVars>>

GridNext ==
    \/ Grid_Call
    \/ \E k \in 0 .. GridSlots - 1 : Grid_OnLoad(k)
    \/ \E k \in 0 .. GridSlots - 1 : Grid_OnError(k)

-----------------------------------------------------------------------------
(***************************************************************************)
(* removeGridLines: helpers                                                *)
(*                                                                         *)
(* The code works on `data` in place, pixel after pixel, so a pixel that   *)
(* was rewritten is read in its new value by the pixels visited later.     *)
(* Averages are compared as sums: (r+g+b)/3 < 200 is r+g+b < 600, and a    *)
(* difference of averages above 15 is a difference of sums above 45.       *)
(* Math.round(a * wl + b * wr) is computed on exact fractions; on the      *)
(* bitmaps enumerated below the doubles of the code give the same values.  *)
(***************************************************************************)
\* const verticalLineWidth = 11
verticalLineWidth == 11
\* const horizontalLineHeight = 11
horizontalLineHeight == 11
\* Math.abs(offset) <= 3: the centre of a band
CentreOffset == 3
\* x - 5, x + 5, y - 5, y + 5: the flanking pixels
FlankDistance == 5
\* (bgR + bgG + bgB) / 3 > 200 and (r + g + b) / 3 < 200
LightLevel == 200
\* Math.abs(currentAvg - leftAvg) > 15
MaxDifference == 15

Abs(n) == IF n < 0 THEN -n ELSE n
Max(a, b) == IF a >= b THEN a ELSE b

\* Math.round(n / d) for n >= 0 and d > 0 (halves round up)
RoundDiv(n, d) == (2 * n + d) \div (2 * d)

Sum3(p) == p.r + p.g + p.b

\* (mutant) a band of twice the width
BandHalf_Wide(lineWidth) == lineWidth
\* Math.floor(verticalLineWidth / 2)
BandHalf(lineWidth) == lineWidth \div 2

\* bgR, bgG, bgB: the rounded mean of the four corner pixels
CornerBackground(d, w, h) ==
    LET c1 == d[0]
        c2 == d[w - 1]
        c3 == d[(h - 1) * w]
        c4 == d[h * w - 1]
    IN  [r |-> RoundDiv(c1.r + c2.r + c3.r + c4.r, 4),
         g |-> RoundDiv(c1.g + c2.g + c3.g + c4.g, 4),
         b |-> RoundDiv(c1.b + c2.b + c3.b + c4.b, 4)]

\* const isLightBg = (bgR + bgG + bgB) / 3 > 200
IsLightBg(bg) == Sum3(bg) > 3 * LightLevel

\* (r + g + b) / 3 < 200
IsDark(p) == Sum3(p) < 3 * LightLevel

\* (mutant) any difference of brightness counts
Differs_AnyDifference(p, q) == Sum3(p) # Sum3(q)
\* Math.abs(currentAvg - leftAvg) > 15
Differs(p, q) == Abs(Sum3(p) - Sum3(q)) > 3 * MaxDifference

\* data[idx], data[idx + 1], data[idx + 2] = the three channels of c
SetRGB(d, i, c) == [d EXCEPT ![i].r = c.r, ![i].g = c.g, ![i].b = c.b]

\* (mutant) the plain mean of the two flanking pixels
Blend_Plain(lo, hi, distLo, distHi) ==
    [r |-> RoundDiv(lo.r + hi.r, 2), g |-> RoundDiv(lo.g + hi.g, 2),
     b |-> RoundDiv(lo.b + hi.b, 2)]

\* the weighted mean of the flanking pixels lo and hi, at distances
\* distLo and distHi: weight of lo = distHi / totalDist
Blend(lo, hi, distLo, distHi) ==
    LET total == distLo + distHi
        mix(a, b) == IF total > 0
                     THEN RoundDiv(a * distHi + b * distLo, total)
                     ELSE RoundDiv(a + b, 2)
    IN  [r |-> mix(lo.r, hi.r), g |-> mix(lo.g, hi.g), b |-> mix(lo.b, hi.b)]

\* (mutant) the pixel and its far flanking pixel both get the background
ErasePixel_PaintsFlank(d, i, lo, hi, distLo, distHi, offset, c) ==
    SetRGB(SetRGB(d, i, c.bg), hi, c.bg)

\* the body of the inner loops for the pixel i, with flanking pixels lo, hi
\* c = [cw, ch, w, h, bg, light]
ErasePixel(d, i, lo, hi, distLo, distHi, offset, c) ==
    IF c.light /\ Abs(offset) <= CentreOffset /\ IsDark(d[i])
    THEN SetRGB(d, i, c.bg)
    ELSE IF Differs(d[i], d[lo]) \/ Differs(d[i], d[hi])
         THEN SetRGB(d, i, Blend(d[lo], d[hi], distLo, distHi))
         ELSE d

\* d holds no pixel.  Tested on entry of each loop below, so that the
\* bitmap a step receives is evaluated before the step goes on (TLC hands
\* arguments over unevaluated, and a chain of them exhausts its stack).
NoPixel(d) == DOMAIN d = {}

\* for (offset ...) of the vertical band, in the row y
RECURSIVE VerticalOffsets(_, _, _, _)
VerticalOffsets(d, y, offset, c) ==
    IF offset > BandHalf(verticalLineWidth) \/ NoPixel(d) THEN d
    ELSE LET x == c.cw + offset
             leftX == Max(0, x - FlankDistance)
             rightX == Min(c.w - 1, x + FlankDistance)
             d1 == IF x >= 0 /\ x < c.w
                   THEN ErasePixel(d, y * c.w + x, y * c.w + leftX,
                                   y * c.w + rightX, Abs(x - leftX),
                                   Abs(x - rightX), offset, c)
                   ELSE d
         IN  VerticalOffsets(d1, y, offset + 1, c)

\* for (let y = 0; y < height; y++)
RECURSIVE VerticalRows(_, _, _)
VerticalRows(d, y, c) ==
    IF y >= c.h \/ NoPixel(d) THEN d
    ELSE VerticalRows(
             VerticalOffsets(d, y, -BandHalf(verticalLineWidth), c),
             y + 1, c)

\* for (let x = 0; x < width; x++) of a horizontal band, in the row y
RECURSIVE HorizontalRow(_, _, _, _, _)
HorizontalRow(d, y, x, offset, c) ==
    IF x >= c.w \/ NoPixel(d) THEN d
    ELSE LET topY == Max(0, y - FlankDistance)
             bottomY == Min(c.h - 1, y + FlankDistance)
         IN  HorizontalRow(
                 ErasePixel(d, y * c.w + x, topY * c.w + x,
                            bottomY * c.w + x, Abs(y - topY),
                            Abs(y - bottomY), offset, c),
                 y, x + 1, offset, c)

\* for (offset ...) of the horizontal band around lineY
RECURSIVE HorizontalOffsets(_, _, _, _)
HorizontalOffsets(d, lineY, offset, c) ==
    IF offset > BandHalf(horizontalLineHeight) \/ NoPixel(d) THEN d
    ELSE LET y == lineY + offset
             d1 == IF y >= 0 /\ y < c.h
                   THEN HorizontalRow(d, y, 0, offset, c)
                   ELSE d
         IN  HorizontalOffsets(d1, lineY, offset + 1, c)

\* for (const lineY of horizontalLinesY): the lines n * cellHeight, n = 1..3
RECURSIVE HorizontalLines(_, _, _)
HorizontalLines(d, n, c) ==
    IF n > 3 \/ NoPixel(d) THEN d
    ELSE HorizontalLines(
             HorizontalOffsets(d, n * c.ch,
                               -BandHalf(horizontalLineHeight), c),
             n + 1, c)

\* one pass: the vertical band, then the three horizontal bands
SeamPass(d, c) == HorizontalLines(VerticalRows(d, 0, c), 1, c)

\* the two passes over a bitmap of 2*cw x 4*ch pixels; the background is
\* estimated once, before the first pass
EraseSeams(d, cw, ch) ==
    LET w == cw * 2
        h == ch * 4
        bg == CornerBackground(d, w, h)
        c == [cw |-> cw, ch |-> ch, w |-> w, h |-> h, bg |-> bg,
              light |-> IsLightBg(bg)]
    IN  SeamPass(SeamPass(d, c), c)

\* drawImage(img, 0, 0, w, h): the bitmap stretched to w x h.  The filter
\* is the browser's; the nearest source pixel is taken here, and the inputs
\* of other sizes are of one colour, which every filter leaves as it is.
Stretch(im, w, h) ==
    [i \in Pixels(w, h) |->
        im.data[((YOf(i, w) * im.height) \div h) * im.width
                + ((XOf(i, w) * im.width) \div w)]]

\* sourceImg drawn on the canvas of w x h: stretched when the sizes differ
SizedTo(im, w, h) ==
    IF im.width # w \/ im.height # h THEN Stretch(im, w, h) ELSE im.data

(***************************************************************************)
(* splitGrid8: helpers                                                     *)
(***************************************************************************)
\* (mutant) every cell cropped at the origin
CropCell_AtOrigin(src, w, col, row, cw, ch) ==
    [i \in Pixels(cw, ch) |-> src[YOf(i, cw) * w + XOf(i, cw)]]

\* clearRect, then drawImage(sourceImg, x, y, cw, ch, 0, 0, cw, ch)
CropCell(src, w, col, row, cw, ch) ==
    [i \in Pixels(cw, ch) |->
        src[(row * ch + YOf(i, cw)) * w + (col * cw + XOf(i, cw))]]

\* the cells pushed by the loops over row = 0..3 and col = 0..1
RECURSIVE CropFrom(_, _, _, _, _, _)
CropFrom(acc, row, col, src, cw, ch) ==
    IF row >= 4 THEN acc
    ELSE IF col >= 2 THEN CropFrom(acc, row + 1, 0, src, cw, ch)
    ELSE CropFrom(
             Append(acc, Image(cw, ch,
                                 CropCell(src, cw * 2, col, row, cw, ch))),
             row, col + 1, src, cw, ch)

\* the event an Image hands to onerror
LoadError == "LoadError"

(***************************************************************************)
(* The grids given to splitGrid8: bitmaps that createGrid8 composes from   *)
(* sources of one colour, bitmaps of another size, and a broken one.       *)
(***************************************************************************)
\* bound: cell sides of the enumerated grids
MaxSplitCell == 3
\* bound: sides of the bitmaps of another size
MaxOddSide == 3
\* a cell wide enough to hold pixels outside the bands around the seams
WideCell == <<7, 12>>

Cream == [r |-> 250, g |-> 240, b |-> 233, a |-> 255]
Grey == [r |-> 100, g |-> 100, b |-> 100, a |-> 255]
SplitPalette == {White, Cream, Black, Grey}
\* the colour of the other sources of a grid
BaseColours == {White, Black}

Solid(w, h, colour) == Image(w, h, [i \in Pixels(w, h) |-> colour])

\* the canvas createGrid8 resolves with: one drawImage call for each
\* decodable source among the first 8
Composite(imgs, cw, ch) ==
    [NewCanvas(cw, ch) EXCEPT
        !.drawn = {DrawCall(k, imgs[k + 1], cw, ch) :
                      k \in {j \in 0 .. Min(Len(imgs), GridSlots) - 1 :
                                imgs[j + 1].ok}}]

\* the pixels of a canvas whose sources were drawn at scale 1 on whole
\* pixels: the white fill under the drawn sources
Rasterize(cv, imgs) ==
    [i \in Pixels(cv.width, cv.height) |->
        LET x == XOf(i, cv.width)
            y == YOf(i, cv.width)
            over == {d \in cv.drawn :
                        /\ d.den * x >= d.offsetX
                        /\ d.den * (x + 1) <= d.offsetX + d.scaledWidth
                        /\ d.den * y >= d.offsetY
                        /\ d.den * (y + 1) <= d.offsetY + d.scaledHeight}
        IN  IF over = {} THEN White
            ELSE LET d == CHOOSE e \in over : TRUE
                     im == imgs[d.index + 1]
                 IN  im.data[(y - d.offsetY \div d.den) * im.width
                             + (x - d.offsetX \div d.den)]]

\* n sources filling their cells, of colour c1 except the one at index j
Sources(n, j, c1, c2, cw, ch) ==
    [k \in 1 .. n |-> Solid(cw, ch, IF k = j + 1 THEN c2 ELSE c1)]

NotComposed == <<>>
NoCells == <<>>

SplitIdle ==
    /\ splitPc = "idle"
    /\ splitPromise = "pending"
    /\ cells = NoCells
    /\ splitError = NoError
    /\ gridImage = BrokenImage
    /\ splitCellWidth = 370
    /\ splitCellHeight = 320
    /\ linesPromise = "pending"
    /\ cleaned = NoResult
    /\ sourceImg = NoResult
    /\ composedFrom = NotComposed

SplitInit ==
    /\ splitPc = "call"
    /\ splitPromise = "pending"
    /\ cells = NoCells
    /\ splitError = NoError
    /\ linesPromise = "pending"
    /\ cleaned = NoResult
    /\ sourceImg = NoResult
    /\ \E size \in ((1 .. MaxSplitCell) \X (1 .. MaxSplitCell)) \cup {WideCell} :
          /\ splitCellWidth = size[1]
          /\ splitCellHeight = size[2]
          /\ \/ /\ gridImage = BrokenImage
                /\ composedFrom = NotComposed
             \/ /\ size # WideCell
                /\ \E w \in 1 .. MaxOddSide, h \in 1 .. MaxOddSide,
                      colour \in SplitPalette :
                      /\ w # size[1] * 2 \/ h # size[2] * 4
                      /\ gridImage = Solid(w, h, colour)
                /\ composedFrom = NotComposed
             \/ \E n \in 1 .. GridSlots, j \in 0 .. GridSlots - 1,
                   c1 \in BaseColours, c2 \in SplitPalette :
                   /\ j < n
                   /\ n = 1 => c1 = White
                   /\ size = WideCell => n = GridSlots /\ c1 = White
                   /\ composedFrom =
                          Sources(n, j, c1, c2, size[1], size[2])
                   /\ gridImage =
                          Image(size[1] * 2, size[2] * 4,
                                Rasterize(Composite(composedFrom, size[1],
                                                    size[2]),
                                          composedFrom))

\* splitGrid8(gridImageDataUrl, cellWidth, cellHeight): the executor runs
\* up to the await of removeGridLines, whose executor sets img.src
Split_Call ==
    /\ splitPc = "call"
    /\ splitPc' = "erasing"
    /\ UNCHANGED <<splitPromise, cells, splitError, gridImage,
                   splitCellWidth, splitCellHeight, linesPromise, cleaned,
                   sourceImg, composedFrom>>
    /\ UNCHANGED <<rbVars, gridVars, appVars, descVars, eraseVars>>

\* (mutant) removeGridLines refusing a bitmap of another size
Lines_OnLoad_Strict ==
    /\ splitPc = "erasing"
    /\ gridImage.ok
    /\ IF gridImage.width = splitCellWidth * 2
          /\ gridImage.height = splitCellHeight * 4
       THEN /\ cleaned' = Image(splitCellWidth * 2, splitCellHeight * 4,
                                EraseSeams(gridImage.data, splitCellWidth,
                                           splitCellHeight))
            /\ linesPromise' = "resolved"
       ELSE /\ linesPromise' = "rejected"
            /\ UNCHANGED cleaned
    /\ splitPc' = "await"
    /\ UNCHANGED <<splitPromise, cells, splitError, gridImage,
                   splitCellWidth, splitCellHeight, sourceImg, composedFrom>>
    /\ UNCHANGED <<rbVars, gridVars, appVars, descVars, eraseVars>>

\* img.onload of removeGridLines: resize, two passes, resolve
Lines_OnLoad ==
    /\ splitPc = "erasing"
    /\ gridImage.ok
    /\ LET w == splitCellWidth * 2
           h == splitCellHeight * 4
       IN  cleaned' = Image(w, h,
                            EraseSeams(SizedTo(gridImage, w, h),
                                       splitCellWidth, splitCellHeight))
    /\ linesPromise' = "resolved"
    /\ splitPc' = "await"
    /\ UNCHANGED <<splitPromise, cells, splitError, gridImage,
                   splitCellWidth, splitCellHeight, sourceImg, composedFrom>>
    /\ UNCHANGED <<rbVars, gridVars, appVars, descVars, eraseVars>>

\* img.onerror = reject of removeGridLines
Lines_OnError ==
    /\ splitPc = "erasing"
    /\ ~gridImage.ok
    /\ linesPromise' = "rejected"
    /\ splitPc' = "await"
    /\ UNCHANGED <<splitPromise, cells, splitError, gridImage,
                   splitCellWidth, splitCellHeight, cleaned, sourceImg,
                   composedFrom>>
    /\ UNCHANGED <<rbVars, gridVars, appVars, descVars, eraseVars>>

\* the continuation of `await removeGridLines(...)`: img.src = cleaned, or
\* the catch block
Split_Resume ==
    /\ splitPc = "await"
    /\ IF linesPromise = "resolved"
       THEN /\ splitPc' = "loading"
            /\ UNCHANGED <<splitPromise, splitError>>
       ELSE /\ splitPromise' = "rejected"
            /\ splitError' = LoadError
            /\ splitPc' = "done"
    /\ UNCHANGED <<cells, gridImage, splitCellWidth, splitCellHeight,
                   linesPromise, cleaned, sourceImg, composedFrom>>
    /\ UNCHANGED <<rbVars, gridVars, appVars, descVars, eraseVars>>

\* (mutant) the cells cropped from the bitmap that was passed in
Split_OnLoad_FromInput ==
    /\ splitPc = "loading"
    /\ LET w == splitCellWidth * 2
           h == splitCellHeight * 4
       IN  /\ sourceImg' = Image(w, h, SizedTo(gridImage, w, h))
           /\ cells' = CropFrom(<<>>, 0, 0, sourceImg'.data, splitCellWidth,
                                splitCellHeight)
    /\ splitPromise' = "resolved"
    /\ splitPc' = "done"
    /\ UNCHANGED <<splitError, gridImage, splitCellWidth, splitCellHeight,
                   linesPromise, cleaned, composedFrom>>
    /\ UNCHANGED <<rbVars, gridVars, appVars, descVars, eraseVars>>

\* img.onload of splitGrid8: resize, crop the 8 cells, resolve(cells)
Split_OnLoad ==
    /\ splitPc = "loading"
    /\ LET w == splitCellWidth * 2
           h == splitCellHeight * 4
       IN  /\ sourceImg' = Image(w, h, SizedTo(cleaned, w, h))
           /\ cells' = CropFrom(<<>>, 0, 0, sourceImg'.data, splitCellWidth,
                                splitCellHeight)
    /\ splitPromise' = "resolved"
    /\ splitPc' = "done"
    /\ UNCHANGED <<splitError, gridImage, splitCellWidth, splitCellHeight,
                   linesPromise, cleaned, composedFrom>>
    /\ UNCHANGED <<rbVars, gridVars, appVars, descVars, eraseVars>>

SplitNext ==
    \/ Split_Call
    \/ Lines_OnLoad
    \/ Lines_OnError
    \/ Split_Resume
    \/ Split_OnLoad

-----------------------------------------------------------------------------
(***************************************************************************)
(* App.jsx: the handlers that drive the pipeline                           *)
(*                                                                         *)
(* An image is held as a record that tells where it comes from:            *)
(*   [kind |-> "grid", index, ok]        what generateGrid8Image returned  *)
(*                                       for the grid `index`; ~ok: it     *)
(*                                       cannot be decoded                 *)
(*   [kind |-> "processed", of, threshold]  removeBackgroundSimple(of)     *)
(*   [kind |-> "cell", of, k]            cell k of splitGrid8(of)          *)
(*   [kind |-> "main"], [kind |-> "tab"] generateMainImage/TabImage        *)
(* A handler reads the state of the render it was created in: what it      *)
(* reads after its first await is held in variables of its own.            *)
(***************************************************************************)
\* <option value={8}> ... <option value={40}>
CountOptions == {8, 16, 24, 32, 40}
\* bound: the largest count selected in the model
MaxCount == 24
Counts == {c \in CountOptions : c <= MaxCount}
\* bound: what the user does in one session (changes of the select,
\* requests for descriptions, clicks, slider moves)
MaxUserEvents == 7
\* bound: background runs (slider changes, apply clicks) in flight
MaxBackgroundRuns == 2
\* positions of the threshold slider used in the model (min 200, max 255)
SliderValues == {200, 240}
\* const maxRetries = 5
maxRetries == 5
\* cells of one grid
GridCells == 8

NoImage == [kind |-> "null"]
MainImage == [kind |-> "main", ok |-> TRUE]
TabImage == [kind |-> "tab", ok |-> TRUE]

GridImage(index, ok) == [kind |-> "grid", index |-> index, ok |-> ok]
\* what removeBackgroundSimple(image, threshold, null) resolves with
Processed(image, t) ==
    [kind |-> "processed", of |-> image, threshold |-> t, ok |-> TRUE]
\* what splitGrid8(image, 370, 320) resolves with
CutCells(image) ==
    [k \in 1 .. GridCells |-> [kind |-> "cell", of |-> image, k |-> k - 1]]

\* Math.ceil(count / 8)
GridCount(n) == (n + 7) \div 8

\* endIndex - startIndex of the grid g
ActualCutCount(g, n) == Min(g * 8 + 8, n) - g * 8

\* cutCells.slice(0, n): a negative n counts from the end
Slice(s, n) ==
    LET end == IF n < 0 THEN Max(Len(s) + n, 0) ELSE Min(n, Len(s))
    IN  SubSeq(s, 1, end)

\* removeBackgroundSimple on each image of s, in order
ProcessAll(s, t) == [i \in 1 .. Len(s) |-> Processed(s[i], t)]

AllDecodable(s) == \A i \in 1 .. Len(s) : s[i].ok

\* the section of step 7 is rendered
Step7Shown == Len(processedGridImages) > 0 /\ currentStep = 7

AppIdleLocals ==
    /\ genPc = "idle"
    /\ genCount = 0
    /\ genDescriptions = 0
    /\ genThreshold = 240
    /\ genGridImages = <<>>
    /\ gridIndex = 0
    /\ retryCount = 0
    /\ allGridImages = <<>>
    /\ initialProcessed = <<>>
    /\ inFlight = {}
    /\ cooled = FALSE
    /\ cutPc = "idle"
    /\ cutCount = 0
    /\ cutInput = <<>>
    /\ cutIndex = 0
    /\ allCutImages = <<>>
    /\ bgRuns = {}
    /\ userEvents = 0

\* the useState defaults
AppDefaults ==
    /\ count = 8
    /\ descriptions = 0
    /\ gridImages = <<>>
    /\ processedGridImages = <<>>
    /\ cutImages = <<>>
    /\ mainImage = NoImage
    /\ tabImage = NoImage
    /\ backgroundThreshold = 240
    /\ processingBackground = FALSE
    /\ appLoading = FALSE
    /\ currentStep = 1

\* the application is not running
AppIdle == AppDefaults /\ AppIdleLocals

\* the application after mount
AppInit == AppDefaults /\ AppIdleLocals

\* onChange of the select of step 2
App_SetCount(c) ==
    /\ userEvents < MaxUserEvents
    /\ userEvents' = userEvents + 1
    /\ c # count
    /\ count' = c
    /\ UNCHANGED <<descriptions, gridImages, processedGridImages, cutImages,
                   mainImage, tabImage, backgroundThreshold,
                   processingBackground, appLoading, currentStep>>
    /\ UNCHANGED <<genLocals, cutLocals, bgRuns>>
    /\ UNCHANGED <<rbVars, gridVars, splitVars, descVars, eraseVars>>

\* handleGenerateDescriptions: setDescriptions(items), one item for each of
\* the `count` stickers
App_SetDescriptions ==
    /\ userEvents < MaxUserEvents
    /\ userEvents' = userEvents + 1
    /\ descriptions # count
    /\ descriptions' = count
    /\ UNCHANGED <<count, gridImages, processedGridImages, cutImages,
                   mainImage, tabImage, backgroundThreshold,
                   processingBackground, appLoading, currentStep>>
    /\ UNCHANGED <<genLocals, cutLocals, bgRuns>>
    /\ UNCHANGED <<rbVars, gridVars, splitVars, descVars, eraseVars>>

\* handleGenerateStickers has returned: its variables are gone
Gen_Return ==
    /\ genPc' = "idle"
    /\ genCount' = 0
    /\ genDescriptions' = 0
    /\ genThreshold' = 240
    /\ genGridImages' = <<>>
    /\ gridIndex' = 0
    /\ retryCount' = 0
    /\ allGridImages' = <<>>
    /\ initialProcessed' = <<>>
    /\ inFlight' = {}
    /\ cooled' = FALSE

\* the catch and finally blocks of handleGenerateStickers
Gen_Failed ==
    /\ appLoading' = FALSE
    /\ Gen_Return

\* click on the generate button, with texts that pass the checks of lines
\* 195-224 (a click that fails them alerts and changes nothing)
Gen_Click ==
    /\ userEvents < MaxUserEvents
    /\ userEvents' = userEvents + 1
    /\ ~appLoading
    /\ genPc = "idle"
    /\ descriptions > 0
    /\ appLoading' = TRUE
    /\ genCount' = count
    /\ genDescriptions' = descriptions
    /\ genThreshold' = backgroundThreshold
    /\ genGridImages' = gridImages
    /\ gridIndex' = 0
    /\ retryCount' = 0
    /\ allGridImages' = <<>>
    /\ initialProcessed' = <<>>
    /\ inFlight' = {}
    /\ cooled' = FALSE
    /\ genPc' = "request"
    /\ UNCHANGED <<count, descriptions, gridImages, processedGridImages,
                   cutImages, mainImage, tabImage, backgroundThreshold,
                   processingBackground, currentStep>>
    /\ UNCHANGED <<cutLocals, bgRuns>>
    /\ UNCHANGED <<rbVars, gridVars, splitVars, descVars, eraseVars>>

\* lines 244-282: the stickers of the grid are collected and
\* generateGrid8Image is called; a missing description (count was raised
\* after the descriptions were made) throws at line 264
Gen_Request ==
    /\ UNCHANGED userEvents
    /\ genPc = "request"
    /\ IF Min(gridIndex * 8 + 8, genCount) > genDescriptions
       THEN Gen_Failed
       ELSE /\ inFlight' = inFlight \cup {gridIndex}
            /\ genPc' = "awaitGrid"
            /\ UNCHANGED <<appLoading, retryCount, genCount,
                           genDescriptions, genThreshold, genGridImages, gridIndex,
                           allGridImages, initialProcessed, cooled>>
    /\ UNCHANGED <<count, descriptions, gridImages, processedGridImages,
                   cutImages, mainImage, tabImage, backgroundThreshold,
                   processingBackground, currentStep>>
    /\ UNCHANGED <<cutLocals, bgRuns>>
    /\ UNCHANGED <<rbVars, gridVars, splitVars, descVars, eraseVars>>

\* (mutant) the next grid requested without the wait of 3 seconds
Gen_GridSuccess_NoDelay(ok) ==
    /\ UNCHANGED userEvents
    /\ genPc = "awaitGrid"
    /\ inFlight' = inFlight \ {gridIndex}
    /\ allGridImages' = Append(allGridImages, GridImage(gridIndex, ok))
    /\ retryCount' = 0
    /\ cooled' = FALSE
    /\ IF gridIndex + 1 < GridCount(genCount)
       THEN /\ genPc' = "request"
            /\ gridIndex' = gridIndex + 1
            /\ UNCHANGED gridImages
       ELSE /\ genPc' = "removing"
            /\ gridImages' = allGridImages'
            /\ UNCHANGED gridIndex
    /\ UNCHANGED <<genCount, genDescriptions, genThreshold, genGridImages,
                   initialProcessed>>
    /\ UNCHANGED <<count, descriptions, processedGridImages, cutImages,
                   mainImage, tabImage, backgroundThreshold,
                   processingBackground, appLoading, currentStep>>
    /\ UNCHANGED <<cutLocals, bgRuns>>
    /\ UNCHANGED <<rbVars, gridVars, splitVars, descVars, eraseVars>>

\* generateGrid8Image resolves: the image is pushed; either the wait before
\* the next grid starts, or (last grid) setGridImages and the first
\* removeBackgroundSimple
Gen_GridSuccess(ok) ==
    /\ UNCHANGED userEvents
    /\ genPc = "awaitGrid"
    /\ inFlight' = inFlight \ {gridIndex}
    /\ allGridImages' = Append(allGridImages, GridImage(gridIndex, ok))
    /\ retryCount' = 0
    /\ cooled' = FALSE
    /\ IF gridIndex + 1 < GridCount(genCount)
       THEN /\ genPc' = "cooldown"
            /\ gridIndex' = gridIndex + 1
            /\ UNCHANGED gridImages
       ELSE /\ genPc' = "removing"
            /\ gridImages' = allGridImages'
            /\ UNCHANGED gridIndex
    /\ UNCHANGED <<genCount, genDescriptions, genThreshold, genGridImages,
                   initialProcessed>>
    /\ UNCHANGED <<count, descriptions, processedGridImages, cutImages,
                   mainImage, tabImage, backgroundThreshold,
                   processingBackground, appLoading, currentStep>>
    /\ UNCHANGED <<cutLocals, bgRuns>>
    /\ UNCHANGED <<rbVars, gridVars, splitVars, descVars, eraseVars>>

\* (mutant) the next attempt made at once, and one attempt more
Gen_GridFailure_NoWait ==
    /\ UNCHANGED userEvents
    /\ genPc = "awaitGrid"
    /\ IF retryCount + 1 <= maxRetries
       THEN /\ retryCount' = retryCount + 1
            /\ genPc' = "request"
            /\ inFlight' = inFlight \ {gridIndex}
            /\ UNCHANGED <<appLoading, genCount, genDescriptions,
                           genThreshold, genGridImages, gridIndex, allGridImages,
                           initialProcessed, cooled>>
       ELSE Gen_Failed
    /\ UNCHANGED <<count, descriptions, gridImages, processedGridImages,
                   cutImages, mainImage, tabImage, backgroundThreshold,
                   processingBackground, currentStep>>
    /\ UNCHANGED <<cutLocals, bgRuns>>
    /\ UNCHANGED <<rbVars, gridVars, splitVars, descVars, eraseVars>>

\* generateGrid8Image rejects: retry after a wait, or give up after
\* maxRetries failures
Gen_GridFailure ==
    /\ UNCHANGED userEvents
    /\ genPc = "awaitGrid"
    /\ IF retryCount + 1 < maxRetries
       THEN /\ retryCount' = retryCount + 1
            /\ genPc' = "backoff"
            /\ inFlight' = inFlight \ {gridIndex}
            /\ UNCHANGED <<appLoading, genCount, genDescriptions,
                           genThreshold, genGridImages, gridIndex, allGridImages,
                           initialProcessed, cooled>>
       ELSE Gen_Failed
    /\ UNCHANGED <<count, descriptions, gridImages, processedGridImages,
                   cutImages, mainImage, tabImage, backgroundThreshold,
                   processingBackground, currentStep>>
    /\ UNCHANGED <<cutLocals, bgRuns>>
    /\ UNCHANGED <<rbVars, gridVars, splitVars, descVars, eraseVars>>

\* the timer of line 301 fires
Gen_BackoffDone ==
    /\ UNCHANGED userEvents
    /\ genPc = "backoff"
    /\ genPc' = "request"
    /\ UNCHANGED <<genCount, genDescriptions, genThreshold, genGridImages, gridIndex,
                   retryCount, allGridImages, initialProcessed, inFlight,
                   cooled>>
    /\ UNCHANGED appState
    /\ UNCHANGED <<cutLocals, bgRuns>>
    /\ UNCHANGED <<rbVars, gridVars, splitVars, descVars, eraseVars>>

\* the timer of line 241 fires
Gen_CooldownDone ==
    /\ UNCHANGED userEvents
    /\ genPc = "cooldown"
    /\ cooled' = TRUE
    /\ genPc' = "request"
    /\ UNCHANGED <<genCount, genDescriptions, genThreshold, genGridImages, gridIndex,
                   retryCount, allGridImages, initialProcessed, inFlight>>
    /\ UNCHANGED appState
    /\ UNCHANGED <<cutLocals, bgRuns>>
    /\ UNCHANGED <<rbVars, gridVars, splitVars, descVars, eraseVars>>

\* one removeBackgroundSimple(allGridImages[i], backgroundThreshold, null)
\* of lines 318-322 settles; after the last one lines 323-324 run
Gen_RemoveBackground ==
    /\ UNCHANGED userEvents
    /\ genPc = "removing"
    /\ LET input == allGridImages[Len(initialProcessed) + 1]
           done == Append(initialProcessed, Processed(input, genThreshold))
       IN  IF ~input.ok
           THEN /\ Gen_Failed
                /\ UNCHANGED <<processedGridImages, currentStep>>
           ELSE IF Len(done) = Len(allGridImages)
           THEN /\ processedGridImages' = done
                /\ currentStep' = 7
                /\ appLoading' = FALSE
                /\ Gen_Return
           ELSE /\ initialProcessed' = done
                /\ UNCHANGED <<processedGridImages, currentStep, appLoading,
                               genPc, genCount, genDescriptions,
                               genThreshold, genGridImages, gridIndex, retryCount,
                               allGridImages, inFlight, cooled>>
    /\ UNCHANGED <<count, descriptions, gridImages, cutImages, mainImage,
                   tabImage, backgroundThreshold, processingBackground>>
    /\ UNCHANGED <<cutLocals, bgRuns>>
    /\ UNCHANGED <<rbVars, gridVars, splitVars, descVars, eraseVars>>

\* the run of background removal that a slider change or the apply button
\* starts for the threshold t: it works on the gridImages of this render
BackgroundRun(t) == [grids |-> gridImages, threshold |-> t]

\* onChange of the threshold slider
Slider_Change(t) ==
    /\ userEvents < MaxUserEvents
    /\ userEvents' = userEvents + 1
    /\ Step7Shown
    /\ t # backgroundThreshold
    /\ Cardinality(bgRuns) < MaxBackgroundRuns
    /\ BackgroundRun(t) \notin bgRuns
    /\ backgroundThreshold' = t
    /\ processingBackground' = TRUE
    /\ bgRuns' = bgRuns \cup {BackgroundRun(t)}
    /\ UNCHANGED <<count, descriptions, gridImages, processedGridImages,
                   cutImages, mainImage, tabImage, appLoading, currentStep>>
    /\ UNCHANGED <<genLocals, cutLocals>>
    /\ UNCHANGED <<rbVars, gridVars, splitVars, descVars, eraseVars>>

\* handleApplyBackgroundRemoval, up to its first await
Apply_Click ==
    /\ userEvents < MaxUserEvents
    /\ userEvents' = userEvents + 1
    /\ Step7Shown
    /\ ~processingBackground
    /\ Cardinality(bgRuns) < MaxBackgroundRuns
    /\ BackgroundRun(backgroundThreshold) \notin bgRuns
    /\ processingBackground' = TRUE
    /\ bgRuns' = bgRuns \cup {BackgroundRun(backgroundThreshold)}
    /\ UNCHANGED <<count, descriptions, gridImages, processedGridImages,
                   cutImages, mainImage, tabImage, backgroundThreshold,
                   appLoading, currentStep>>
    /\ UNCHANGED <<genLocals, cutLocals>>
    /\ UNCHANGED <<rbVars, gridVars, splitVars, descVars, eraseVars>>

\* a run of background removal (slider or apply button) ends: lines 706-714
\* and 342-353
Background_Done(run) ==
    /\ UNCHANGED userEvents
    /\ run \in bgRuns
    /\ bgRuns' = bgRuns \ {run}
    /\ processingBackground' = FALSE
    /\ IF AllDecodable(run.grids)
       THEN processedGridImages' = ProcessAll(run.grids, run.threshold)
       ELSE UNCHANGED processedGridImages
    /\ UNCHANGED <<count, descriptions, gridImages, cutImages, mainImage,
                   tabImage, backgroundThreshold, appLoading, currentStep>>
    /\ UNCHANGED <<genLocals, cutLocals>>
    /\ UNCHANGED <<rbVars, gridVars, splitVars, descVars, eraseVars>>

\* (mutant) the grids cut as they were generated
SplitInput_Raw == gridImages
\* the grids handleSplitGrids cuts
SplitInput == processedGridImages

\* handleSplitGrids has returned: its variables are gone
Cut_Return ==
    /\ cutPc' = "idle"
    /\ cutCount' = 0
    /\ cutInput' = <<>>
    /\ cutIndex' = 0
    /\ allCutImages' = <<>>

\* click on the split button: handleSplitGrids up to its first await
Cut_Click ==
    /\ userEvents < MaxUserEvents
    /\ userEvents' = userEvents + 1
    /\ Step7Shown
    /\ ~appLoading
    /\ ~processingBackground
    /\ cutPc = "idle"
    /\ appLoading' = TRUE
    /\ cutInput' = SplitInput
    /\ cutCount' = count
    /\ cutIndex' = 0
    /\ allCutImages' = <<>>
    /\ cutPc' = "cutting"
    /\ UNCHANGED <<count, descriptions, gridImages, processedGridImages,
                   cutImages, mainImage, tabImage, backgroundThreshold,
                   processingBackground, currentStep>>
    /\ UNCHANGED <<genLocals, bgRuns>>
    /\ UNCHANGED <<rbVars, gridVars, splitVars, descVars, eraseVars>>

\* splitGrid8(processedGridImages[gridIndex], 370, 320) resolves; after the
\* last grid setCutImages runs (line 384)
Cut_Grid ==
    /\ UNCHANGED userEvents
    /\ cutPc = "cutting"
    /\ cutIndex < Len(cutInput)
    /\ allCutImages' =
          allCutImages \o Slice(CutCells(cutInput[cutIndex + 1]),
                                ActualCutCount(cutIndex, cutCount))
    /\ cutIndex' = cutIndex + 1
    /\ IF cutIndex + 1 = Len(cutInput)
       THEN /\ cutImages' = allCutImages'
            /\ cutPc' = "main"
       ELSE UNCHANGED <<cutImages, cutPc>>
    /\ UNCHANGED <<cutCount, cutInput>>
    /\ UNCHANGED <<count, descriptions, gridImages, processedGridImages,
                   mainImage, tabImage, backgroundThreshold,
                   processingBackground, appLoading, currentStep>>
    /\ UNCHANGED <<genLocals, bgRuns>>
    /\ UNCHANGED <<rbVars, gridVars, splitVars, descVars, eraseVars>>

\* generateMainImage, then removeBackgroundSimple(mainImg, threshold); a
\* request that fails ends the handler in its catch block
Cut_Main(ok) ==
    /\ UNCHANGED userEvents
    /\ cutPc = "main"
    /\ IF ok
       THEN /\ mainImage' = Processed(MainImage, backgroundThreshold)
            /\ cutPc' = "tab"
            /\ UNCHANGED <<appLoading, cutCount, cutInput, cutIndex,
                           allCutImages>>
       ELSE /\ appLoading' = FALSE
            /\ Cut_Return
            /\ UNCHANGED mainImage
    /\ UNCHANGED <<count, descriptions, gridImages, processedGridImages,
                   cutImages, tabImage, backgroundThreshold,
                   processingBackground, currentStep>>
    /\ UNCHANGED <<genLocals, bgRuns>>
    /\ UNCHANGED <<rbVars, gridVars, splitVars, descVars, eraseVars>>

\* (mutant) setCurrentStep(9) also when the tab image failed
Cut_Tab_AlwaysDone(ok) ==
    /\ UNCHANGED userEvents
    /\ cutPc = "tab"
    /\ IF ok
       THEN tabImage' = Processed(TabImage, backgroundThreshold)
       ELSE UNCHANGED tabImage
    /\ currentStep' = 9
    /\ appLoading' = FALSE
    /\ Cut_Return
    /\ UNCHANGED <<count, descriptions, gridImages, processedGridImages,
                   cutImages, mainImage, backgroundThreshold,
                   processingBackground>>
    /\ UNCHANGED <<genLocals, bgRuns>>
    /\ UNCHANGED <<rbVars, gridVars, splitVars, descVars, eraseVars>>

\* generateTabImage, then removeBackgroundSimple(tabImg, threshold), then
\* setCurrentStep(9)
Cut_Tab(ok) ==
    /\ UNCHANGED userEvents
    /\ cutPc = "tab"
    /\ IF ok
       THEN /\ tabImage' = Processed(TabImage, backgroundThreshold)
            /\ currentStep' = 9
       ELSE UNCHANGED <<tabImage, currentStep>>
    /\ appLoading' = FALSE
    /\ Cut_Return
    /\ UNCHANGED <<count, descriptions, gridImages, processedGridImages,
                   cutImages, mainImage, backgroundThreshold,
                   processingBackground>>
    /\ UNCHANGED <<genLocals, bgRuns>>
    /\ UNCHANGED <<rbVars, gridVars, splitVars, descVars, eraseVars>>

AppNext ==
    \/ \E c \in Counts : App_SetCount(c)
    \/ App_SetDescriptions
    \/ Gen_Click
    \/ Gen_Request
    \/ \E ok \in BOOLEAN : Gen_GridSuccess(ok)
    \/ Gen_GridFailure
    \/ Gen_BackoffDone
    \/ Gen_CooldownDone
    \/ Gen_RemoveBackground
    \/ \E t \in SliderValues : Slider_Change(t)
    \/ Apply_Click
    \/ \E run \in bgRuns : Background_Done(run)
    \/ Cut_Click
    \/ Cut_Grid
    \/ \E ok \in BOOLEAN : Cut_Main(ok)
    \/ \E ok \in BOOLEAN : Cut_Tab(ok)

-----------------------------------------------------------------------------
(***************************************************************************)
(* removeGridLines, pixel by pixel                                         *)
(*                                                                         *)
(* The two passes of img.onload as the loops run them: one step for each   *)
(* turn of an innermost loop.  The input has the expected size, so the     *)
(* canvas holds it as it is.                                               *)
(***************************************************************************)
\* bound: the largest side of a cell of the small grids
MaxEraseCell == 3

\* a grid of 2*cw x 4*ch pixels whose cell k (row-major) is of one colour,
\* colours[k + 1]
GridOf(colours, cw, ch) ==
    [i \in Pixels(2 * cw, 4 * ch) |->
        colours[2 * (YOf(i, 2 * cw) \div ch) + (XOf(i, 2 * cw) \div cw) + 1]]

\* what the loops read besides data: the sizes and the background estimate
EraseContext ==
    [cw |-> erCellWidth, ch |-> erCellHeight, w |-> erCellWidth * 2,
     h |-> erCellHeight * 4, bg |-> erBg, light |-> IsLightBg(erBg)]

\* removeGridLines is not running
EraseIdle ==
    /\ erPc = "idle"
    /\ erCellWidth = 1
    /\ erCellHeight = 1
    /\ erInput = <<>>
    /\ erData = <<>>
    /\ erBg = [r |-> 0, g |-> 0, b |-> 0]
    /\ erPass = 0
    /\ erY = 0
    /\ erOffset = 0
    /\ erLine = 0
    /\ erX = 0

\* removeGridLines(gridImageDataUrl, cellWidth, cellHeight) with a grid of
\* 2*cellWidth x 4*cellHeight pixels: square cells of the colour c1, but
\* the cell j of c2 and the last cell of c3; or wide cells, white but one
EraseInit ==
    /\ erPc = "call"
    /\ \E size \in {<<n, n>> : n \in 1 .. MaxEraseCell} \cup {WideCell},
          j \in 1 .. GridSlots, c1 \in BaseColours, c2 \in SplitPalette,
          c3 \in {White, Black, Grey} :
          /\ c3 \in {c1, Grey}
          /\ size = WideCell => c1 = White /\ c3 = White
          /\ erCellWidth = size[1]
          /\ erCellHeight = size[2]
          /\ erInput = GridOf([k \in 1 .. GridSlots |->
                                  IF k = j THEN c2
                                  ELSE IF k = GridSlots THEN c3 ELSE c1],
                              size[1], size[2])
    /\ erData = erInput
    /\ erBg = [r |-> 0, g |-> 0, b |-> 0]
    /\ erPass = 0
    /\ erY = 0
    /\ erOffset = 0
    /\ erLine = 0
    /\ erX = 0

\* img.onload up to the first pass: the pixels are read and the background
\* estimated from the four corners
Erase_OnLoad ==
    /\ erPc = "call"
    /\ erBg' = CornerBackground(erData, erCellWidth * 2, erCellHeight * 4)
    /\ erPass' = 0
    /\ erY' = 0
    /\ erOffset' = -BandHalf(verticalLineWidth)
    /\ erPc' = "vertical"
    /\ UNCHANGED <<erCellWidth, erCellHeight, erInput, erData, erLine, erX>>
    /\ UNCHANGED <<rbVars, gridVars, splitVars, appVars, descVars>>

\* one turn of the loop over offset inside the loop over y (lines 145-193)
Erase_Vertical ==
    /\ erPc = "vertical"
    /\ LET c == EraseContext
           x == c.cw + erOffset
           leftX == Max(0, x - FlankDistance)
           rightX == Min(c.w - 1, x + FlankDistance)
       IN  erData' = IF x >= 0 /\ x < c.w
                     THEN ErasePixel(erData, erY * c.w + x,
                                     erY * c.w + leftX, erY * c.w + rightX,
                                     Abs(x - leftX), Abs(x - rightX),
                                     erOffset, c)
                     ELSE erData
    /\ IF erOffset < BandHalf(verticalLineWidth)
       THEN /\ erOffset' = erOffset + 1
            /\ UNCHANGED <<erY, erPc, erLine, erX>>
       ELSE IF erY + 1 < erCellHeight * 4
       THEN /\ erOffset' = -BandHalf(verticalLineWidth)
            /\ erY' = erY + 1
            /\ UNCHANGED <<erPc, erLine, erX>>
       ELSE /\ erPc' = "horizontal"
            /\ erLine' = 1
            /\ erOffset' = -BandHalf(horizontalLineHeight)
            /\ erX' = 0
            /\ UNCHANGED erY
    /\ UNCHANGED <<erCellWidth, erCellHeight, erInput, erBg, erPass>>
    /\ UNCHANGED <<rbVars, gridVars, splitVars, appVars, descVars>>

\* one turn of the loop over x of a horizontal band (lines 203-243), or,
\* for a row outside the image, one turn of the loop over offset
Erase_Horizontal ==
    /\ erPc = "horizontal"
    /\ LET c == EraseContext
           y == erLine * c.ch + erOffset
           topY == Max(0, y - FlankDistance)
           bottomY == Min(c.h - 1, y + FlankDistance)
           inside == y >= 0 /\ y < c.h
       IN  /\ erData' = IF inside
                        THEN ErasePixel(erData, y * c.w + erX,
                                        topY * c.w + erX,
                                        bottomY * c.w + erX, Abs(y - topY),
                                        Abs(y - bottomY), erOffset, c)
                        ELSE erData
           /\ IF inside /\ erX + 1 < c.w
              THEN /\ erX' = erX + 1
                   /\ UNCHANGED <<erOffset, erLine, erPc>>
              ELSE IF erOffset < BandHalf(horizontalLineHeight)
              THEN /\ erX' = 0
                   /\ erOffset' = erOffset + 1
                   /\ UNCHANGED <<erLine, erPc>>
              ELSE IF erLine < 3
              THEN /\ erX' = 0
                   /\ erOffset' = -BandHalf(horizontalLineHeight)
                   /\ erLine' = erLine + 1
                   /\ UNCHANGED erPc
              ELSE /\ erPc' = "endPass"
                   /\ UNCHANGED <<erX, erOffset, erLine>>
    /\ UNCHANGED <<erCellWidth, erCellHeight, erInput, erBg, erPass, erY>>
    /\ UNCHANGED <<rbVars, gridVars, splitVars, appVars, descVars>>

\* (mutant) one pass only
Erase_EndPass_Once ==
    /\ erPc = "endPass"
    /\ erPass' = erPass + 1
    /\ erPc' = "done"
    /\ UNCHANGED <<erCellWidth, erCellHeight, erInput, erData, erBg, erY,
                   erOffset, erLine, erX>>
    /\ UNCHANGED <<rbVars, gridVars, splitVars, appVars, descVars>>

\* the end of the body of `for (let pass = 0; pass < 2; pass++)`: after the
\* first pass the pixels are written to the canvas and read back, after the
\* second the promise is resolved
Erase_EndPass ==
    /\ erPc = "endPass"
    /\ erPass' = erPass + 1
    /\ IF erPass + 1 < 2
       THEN /\ erPc' = "vertical"
            /\ erY' = 0
            /\ erOffset' = -BandHalf(verticalLineWidth)
       ELSE /\ erPc' = "done"
            /\ UNCHANGED <<erY, erOffset>>
    /\ UNCHANGED <<erCellWidth, erCellHeight, erInput, erData, erBg, erLine,
                   erX>>
    /\ UNCHANGED <<rbVars, gridVars, splitVars, appVars, descVars>>

EraseNext ==
    \/ Erase_OnLoad
    \/ Erase_Vertical
    \/ Erase_Horizontal
    \/ Erase_EndPass

-----------------------------------------------------------------------------
(***************************************************************************)
(* gemini.js: generateImageDescriptionsWithText                            *)
(*                                                                         *)
(* A text is the sequence of its characters, so that trim() and the        *)
(* template strings `${text}${counter}` are computed as the code computes  *)
(* them.  "tie", "wen" and "zi" stand for the characters of the literals   *)
(* '貼' and '文字'.  An item is held as its text (the description of an    *)
(* item is never read).                                                    *)
(***************************************************************************)
\* bound: the largest count asked for
MaxDescCount == 2
\* bound: the largest number of items (or lines) in what the model answers
MaxAnswer == 2
\* bound: the largest number of excluded texts
MaxExcluded == 2
\* const maxRetries = 5 (of generateImageDescriptionsWithText)
descMaxRetries == 5

TextA == <<"a">>
TextAPadded == <<"a", " ">>
TextTie2 == <<"tie", "2">>
TextTie21 == <<"tie", "2", "1">>
NoTextField == <<>>
\* the texts the model answers with; NoTextField: the item has no text
AnswerTexts == {TextA, TextAPadded, TextTie2, NoTextField}
\* the texts the caller excludes
ExcludedPool == {TextA, TextTie2, TextTie21}

\* the decimal digits of n, as `${n}` writes them
RECURSIVE Digits(_)
Digits(n) ==
    LET last == <<<<"0", "1", "2", "3", "4", "5", "6", "7", "8", "9">>
                      [(n % 10) + 1]>>
    IN  IF n < 10 THEN last ELSE Digits(n \div 10) \o last

\* String.prototype.trim
RECURSIVE Trim(_)
Trim(t) ==
    IF t = <<>> THEN t
    ELSE IF Head(t) = " " THEN Trim(Tail(t))
    ELSE IF t[Len(t)] = " " THEN Trim(SubSeq(t, 1, Len(t) - 1))
    ELSE t

\* (item.text || item.txt || '文字').trim()
NormalizeText(t) == Trim(IF t = NoTextField THEN <<"wen", "zi">> ELSE t)

SeqsUpTo(S, n) == UNION {[1 .. k -> S] : k \in 0 .. n}

\* what the model answers: a JSON array of items, text that is not JSON
\* (n lines), or JSON that is not an array of objects with string texts
JsonAnswers == {[kind |-> "json", texts |-> s, lines |-> 0] :
                   s \in SeqsUpTo(AnswerTexts, MaxAnswer)}
LineAnswers == {[kind |-> "lines", texts |-> <<>>, lines |-> n] :
                   n \in 1 .. MaxAnswer}
BadAnswer == [kind |-> "bad", texts |-> <<>>, lines |-> 0]
Answers == JsonAnswers \cup LineAnswers \cup {BadAnswer}

\* let text = null
NoText == [from |-> 0, late |-> FALSE, blank |-> FALSE]

\* lines 256-283: the items parsed from the answer and put in format
ParseItems(body, n) ==
    IF body.kind = "json"
    THEN [i \in 1 .. Len(body.texts) |-> NormalizeText(body.texts[i])]
    ELSE [i \in 1 .. Min(body.lines, n) |->
             NormalizeText(<<"wen", "zi">> \o Digits(i))]

\* lines 285-304 (and 404-419): the items of s that are neither excluded
\* nor already used are appended to acc, in order
RECURSIVE AppendUnique(_, _, _, _)
AppendUnique(acc, used, s, excluded) ==
    IF s = <<>> THEN [items |-> acc, usedTexts |-> used]
    ELSE LET t == Trim(Head(s))
         IN  IF t \in excluded \/ t \in used
             THEN AppendUnique(acc, used, Tail(s), excluded)
             ELSE AppendUnique(Append(acc, Head(s)), used \cup {t},
                               Tail(s), excluded)

\* lines 426-438: items are added until there are n of them
RECURSIVE FirstFree(_, _)
FirstFree(index, usedIndices) ==
    IF index \in usedIndices THEN FirstFree(index + 1, usedIndices)
    ELSE index

RECURSIVE PadItems(_, _, _)
PadItems(s, usedIndices, n) ==
    IF Len(s) >= n THEN s
    ELSE LET index == FirstFree(Len(s) + 1, usedIndices)
         IN  PadItems(Append(s, <<"tie">> \o Digits(index)),
                      usedIndices \cup {index}, n)

\* the first `${text}${counter}` that is neither excluded nor used
RECURSIVE UniqueText(_, _, _, _)
UniqueText(t, counter, excluded, finalTexts) ==
    IF (t \o Digits(counter)) \in (excluded \cup finalTexts)
    THEN UniqueText(t, counter + 1, excluded, finalTexts)
    ELSE t \o Digits(counter)

\* (mutant) the texts returned as they are
FinalCheck_AsIs(acc, finalTexts, s, excluded) == acc \o s

\* lines 440-469: the last check of the texts
RECURSIVE FinalCheck(_, _, _, _)
FinalCheck(acc, finalTexts, s, excluded) ==
    IF s = <<>> THEN acc
    ELSE LET t0 == Trim(Head(s))
             t1 == IF t0 \in excluded
                   THEN UniqueText(t0, 1, excluded, finalTexts)
                   ELSE t0
             t2 == IF t1 \in finalTexts
                   THEN UniqueText(t1, 1, excluded, finalTexts)
                   ELSE t1
         IN  FinalCheck(Append(acc, t2), finalTexts \cup {t2}, Tail(s),
                        excluded)

\* lines 426-471: what is returned for the items s
FinalItems(s, n, excluded) ==
    SubSeq(FinalCheck(<<>>, {}, PadItems(s, {}, n), excluded), 1, n)

NoItems == <<>>

\* generateImageDescriptionsWithText is not running
DescIdle ==
    /\ descPc = "idle"
    /\ descCount = 1
    /\ excludedTexts = {}
    /\ descRetryCount = 0
    /\ pendingRequests = {}
    /\ racing = 0
    /\ text = NoText
    /\ items = NoItems
    /\ usedTexts = {}
    /\ descResult = NoItems

\* a call generateImageDescriptionsWithText(apiKey, theme, textStyle,
\* count, excludedTexts)
DescInit ==
    /\ descPc = "call"
    /\ descCount \in 1 .. MaxDescCount
    /\ excludedTexts \in {e \in SUBSET ExcludedPool :
                             Cardinality(e) <= MaxExcluded}
    /\ descRetryCount = 0
    /\ pendingRequests = {}
    /\ racing = 0
    /\ text = NoText
    /\ items = NoItems
    /\ usedTexts = {}
    /\ descResult = NoItems

\* one turn of the while loop up to its await: model.generateContent is
\* called and raced against the timer
Desc_StartAttempt ==
    /\ pendingRequests' = pendingRequests \cup {descRetryCount + 1}
    /\ racing' = descRetryCount + 1
    /\ descPc' = "race"
    /\ UNCHANGED <<descCount, excludedTexts, descRetryCount, text, items,
                   usedTexts, descResult>>

\* the catch block of the loop: wait and retry, or throw after the last try
Desc_Catch ==
    /\ descRetryCount' = descRetryCount + 1
    /\ racing' = 0
    /\ descPc' = IF descRetryCount + 1 < descMaxRetries THEN "backoff"
                 ELSE "thrown"

\* the call
Desc_Call ==
    /\ descPc = "call"
    /\ Desc_StartAttempt
    /\ UNCHANGED <<rbVars, gridVars, splitVars, appVars, eraseVars>>

\* the request of the attempt a settles while the loop is running:
\* response.text() is assigned to `text` ("text"), white space is assigned
\* and an error thrown ("blank"), the empty string is assigned and an
\* error thrown ("empty"), or nothing is assigned ("error").  When a is the attempt being awaited the loop goes on: break,
\* or catch.  (After the loop `text` is not read again: what settles then
\* changes nothing that is read.)
Desc_Response(a, outcome) ==
    /\ descPc \in {"race", "backoff"}
    /\ a \in pendingRequests
    /\ pendingRequests' = pendingRequests \ {a}
    /\ text' = IF outcome \in {"text", "blank"}
               THEN [from |-> a, late |-> a # racing,
                     blank |-> outcome = "blank"]
               ELSE IF outcome = "empty" THEN NoText
               ELSE text
    /\ IF a = racing
       THEN IF outcome = "text"
            THEN /\ descPc' = "parse"
                 /\ racing' = 0
                 /\ UNCHANGED descRetryCount
            ELSE Desc_Catch
       ELSE UNCHANGED <<descPc, descRetryCount, racing>>
    /\ UNCHANGED <<descCount, excludedTexts, items, usedTexts, descResult>>
    /\ UNCHANGED <<rbVars, gridVars, splitVars, appVars, eraseVars>>

\* the timer of the attempt being awaited fires first: its request stays
\* outstanding
Desc_Timeout ==
    /\ descPc = "race"
    /\ racing \in pendingRequests
    /\ Desc_Catch
    /\ UNCHANGED <<descCount, excludedTexts, pendingRequests, text, items,
                   usedTexts, descResult>>
    /\ UNCHANGED <<rbVars, gridVars, splitVars, appVars, eraseVars>>

\* the wait of line 239 ends and the while condition is tested
Desc_BackoffDone ==
    /\ descPc = "backoff"
    /\ IF text = NoText
       THEN Desc_StartAttempt
       ELSE /\ descPc' = "parse"
            /\ UNCHANGED <<descCount, excludedTexts, descRetryCount,
                           pendingRequests, racing, text, items, usedTexts,
                           descResult>>
    /\ UNCHANGED <<rbVars, gridVars, splitVars, appVars, eraseVars>>

\* lines 249-304 and, when there are enough items, 426-471, which run with
\* no await after the loop is left: a blank `text` is refused; otherwise
\* `text`, whose content is body, is parsed, its items are put in format
\* and duplicates removed
Desc_Parse(body) ==
    /\ descPc = "parse"
    /\ IF text.blank \/ body.kind = "bad"
       THEN /\ descPc' = "thrown"
            /\ UNCHANGED <<items, usedTexts, descResult>>
       ELSE LET u == AppendUnique(<<>>, {}, ParseItems(body, descCount),
                                  excludedTexts)
            IN  /\ items' = u.items
                /\ usedTexts' = u.usedTexts
                /\ IF Len(u.items) < descCount
                   THEN /\ descPc' = "additional"
                        /\ UNCHANGED descResult
                   ELSE /\ descPc' = "returned"
                        /\ descResult' =
                              FinalItems(u.items, descCount, excludedTexts)
    /\ UNCHANGED <<descCount, excludedTexts, descRetryCount,
                   pendingRequests, racing, text>>
    /\ UNCHANGED <<rbVars, gridVars, splitVars, appVars, eraseVars>>

\* lines 307-424: the request for more items ends, with an answer whose
\* items are appended when new, or without one (every failure is caught);
\* then lines 426-471
Desc_Additional(outcome) ==
    /\ descPc = "additional"
    /\ LET more == IF outcome \in JsonAnswers
                   THEN [i \in 1 .. Len(outcome.texts) |->
                            NormalizeText(outcome.texts[i])]
                   ELSE <<>>
           u == AppendUnique(items, usedTexts, more, excludedTexts)
       IN  /\ items' = u.items
           /\ usedTexts' = u.usedTexts
           /\ descResult' = FinalItems(u.items, descCount, excludedTexts)
    /\ descPc' = "returned"
    /\ UNCHANGED <<descCount, excludedTexts, descRetryCount,
                   pendingRequests, racing, text>>
    /\ UNCHANGED <<rbVars, gridVars, splitVars, appVars, eraseVars>>

DescNext ==
    \/ Desc_Call
    \/ \E a \in pendingRequests :
          \E outcome \in {"text", "blank", "empty", "error"} :
             Desc_Response(a, outcome)
    \/ \E body \in Answers : Desc_Parse(body)
    \/ Desc_Timeout
    \/ Desc_BackoffDone
    \/ \E outcome \in JsonAnswers \cup {BadAnswer} : Desc_Additional(outcome)

-----------------------------------------------------------------------------
(***************************************************************************)
(* Specifications                                                          *)
(***************************************************************************)
\* one call of removeBackgroundSimple
Init ==
    RBInit /\ GridIdle /\ SplitIdle /\ AppIdle /\ DescIdle /\ EraseIdle

Next == RBNext

Spec == Init /\ [][Next]_vars

\* one call of createGrid8
InitGrid ==
    GridInit /\ RBIdle /\ SplitIdle /\ AppIdle /\ DescIdle /\ EraseIdle

SpecGrid == InitGrid /\ [][GridNext]_vars

\* one call of splitGrid8
InitSplit ==
    SplitInit /\ RBIdle /\ GridIdle /\ AppIdle /\ DescIdle /\ EraseIdle

SpecSplit == InitSplit /\ [][SplitNext]_vars

\* the application, from mount
InitApp ==
    AppInit /\ RBIdle /\ GridIdle /\ SplitIdle /\ DescIdle /\ EraseIdle

SpecApp == InitApp /\ [][AppNext]_vars

\* one call of generateImageDescriptionsWithText
InitDesc ==
    DescInit /\ RBIdle /\ GridIdle /\ SplitIdle /\ AppIdle /\ EraseIdle

SpecDesc == InitDesc /\ [][DescNext]_vars

\* one call of removeGridLines, pixel by pixel
InitErase ==
    EraseInit /\ RBIdle /\ GridIdle /\ SplitIdle /\ AppIdle /\ DescIdle

SpecErase == InitErase /\ [][EraseNext]_vars

-----------------------------------------------------------------------------
(***************************************************************************)
(* Properties of removeBackgroundSimple                                    *)
(***************************************************************************)
\* the run resolved, without a mask
ResolvedNoMask == pc = "done" /\ promise = "resolved" /\ maskData = NoMask

\* pixels whose avg = (R+G+B)/3 exceeds t
BrightSet(d, t) == {i \in DOMAIN d : d[i].r + d[i].g + d[i].b > 3 * t}

BorderSet(w, h) ==
    {i \in Pixels(w, h) :
        i % w = 0 \/ i % w = w - 1 \/ i \div w = 0 \/ i \div w = h - 1}

\* 4-neighbours in a bitmap of width w
Adjacent(i, j, w) ==
    \/ i \div w = j \div w /\ (i = j + 1 \/ j = i + 1)
    \/ i % w = j % w /\ (i = j + w \/ j = i + w)

\* the pixels of B linked to a pixel of S by a 4-connected path inside B
RECURSIVE Grow(_, _, _)
Grow(S, B, w) ==
    LET N == S \cup {j \in B : \E i \in S : Adjacent(i, j, w)}
    IN  IF N = S THEN S ELSE Grow(N, B, w)

BorderConnected(d, w, h, t) ==
    Grow(BrightSet(d, t) \cap BorderSet(w, h), BrightSet(d, t), w)

Marked(marks) == {i \in DOMAIN marks : marks[i] = 1}

\* C1: without a mask, removeBackgroundSimple makes transparent exactly the
\* pixels with avg > threshold that a 4-connected path of such pixels links
\* to the border; every other pixel keeps its alpha.  White border, white
\* moat and black centre at threshold 240: all transparent but the centre;
\* a white centre inside a closed black ring stays opaque.
C1_FloodIsBorderConnected ==
    ResolvedNoMask =>
        LET R == BorderConnected(img.data, img.width, img.height, threshold)
        IN  /\ Marked(toRemove) = R
            /\ \A i \in DOMAIN result.data :
                  result.data[i].a = IF i \in R THEN 0 ELSE img.data[i].a
            /\ (img.data = MoatBitmap /\ threshold = 240) =>
                  \A i \in DOMAIN result.data :
                     result.data[i].a = IF i = 12 THEN 255 ELSE 0
            /\ (img.data = RingBitmap /\ threshold = 240) =>
                  result.data[12].a = 255

\* a run that removed some pixel and kept a bright pixel the border does
\* not reach
C1_Witness ==
    /\ ResolvedNoMask
    /\ \E i \in DOMAIN result.data : result.data[i].a = 0
    /\ \E i \in BrightSet(img.data, threshold) : result.data[i].a # 0

\* C2: without a mask only the alpha channel changes: R, G and B of every
\* pixel are those of the input, a removed pixel has alpha 0, every other
\* pixel its original alpha, and width and height are those of the input.
C2_OnlyAlphaChanges ==
    ResolvedNoMask =>
        /\ result.width = img.width
        /\ result.height = img.height
        /\ DOMAIN result.data = DOMAIN img.data
        /\ \A i \in DOMAIN result.data :
              /\ result.data[i].r = img.data[i].r
              /\ result.data[i].g = img.data[i].g
              /\ result.data[i].b = img.data[i].b
              /\ toRemove[i] = 1 => result.data[i].a = 0
              /\ toRemove[i] = 0 => result.data[i].a = img.data[i].a

\* a run that removed a coloured pixel and kept a half-transparent one
C2_Witness ==
    /\ ResolvedNoMask
    /\ \E i \in DOMAIN result.data : toRemove[i] = 1 /\ result.data[i].r = 255
    /\ \E i \in DOMAIN result.data : toRemove[i] = 0 /\ result.data[i].a = 128

\* every border pixel has avg <= threshold
DarkBorder ==
    \A i \in BorderSet(img.width, img.height) :
        img.data[i].r + img.data[i].g + img.data[i].b <= 3 * threshold

\* C3: when every border pixel has avg <= threshold nothing is seeded, the
\* queue is empty from the start, and the output equals the input, whatever
\* the interior.
C3_DarkBorderRemovesNothing ==
    (img.ok /\ DarkBorder /\ pc # "load") =>
        /\ queue = <<>>
        /\ dequeued = 0
        /\ Marked(toRemove) = {}
        /\ ResolvedNoMask => result.data = img.data

\* a dark border around a bright interior pixel
C3_Witness ==
    /\ ResolvedNoMask
    /\ DarkBorder
    /\ BrightSet(img.data, threshold) # {}

\* the run came to its end with a mask: it resolved, or it threw in onload
EndedWithMask == pc \in {"done", "threw"} /\ img.ok /\ maskData # NoMask

\* what the threshold pass alone makes of the input
ThresholdPass ==
    ApplyRemove(img.data, FloodFill(img.data, img.width, img.height, threshold))

\* C4: a mask is applied after the threshold pass and wins per pixel: a
\* DELETE pixel ends with alpha 0, an UNSET pixel ends with the RGBA the
\* threshold pass produced.
C4_MaskDeleteAndUnset ==
    EndedWithMask =>
        \A i \in DOMAIN data :
            /\ maskData[i] = MASK_DELETE => data[i].a = 0
            /\ maskData[i] = MASK_UNSET => data[i] = ThresholdPass[i]

\* C5: with a mask, a PROTECT pixel ends with the RGBA it had before the
\* threshold pass, and the operation completes and returns the bitmap.
C5_MaskProtectRestores ==
    EndedWithMask =>
        /\ promise = "resolved"
        /\ \A i \in DOMAIN data :
              maskData[i] = MASK_PROTECT => data[i] = img.data[i]

\* C6: every failure of the operation, an undecodable input or an error
\* raised while the pixels are processed, rejects the returned promise; the
\* operation never ends with the promise neither resolved nor rejected.
C6_FailuresReject ==
    /\ pc \in {"done", "threw"} => promise \in {"resolved", "rejected"}
    /\ pc = "threw" => promise = "rejected"
    /\ (pc = "done" /\ ~img.ok) => promise = "rejected"

\* threshold < 0 behaves as 0, threshold > 255 behaves as 255
Clamp(t) == IF t < 0 THEN 0 ELSE IF t > 255 THEN 255 ELSE t

\* C7: an out-of-range threshold never fails, and the result is the one of
\* the threshold clamped into 0..255.
C7_ThresholdIsClamped ==
    (img.ok /\ maskData = NoMask /\ pc = "done"
        /\ (threshold < 0 \/ threshold > 255)) =>
        /\ promise = "resolved"
        /\ result.data =
              ApplyRemove(img.data,
                  FloodFill(img.data, img.width, img.height, Clamp(threshold)))

\* C8: a lower threshold removes more: for t1 <= t2 the pixels made
\* transparent at t1 include those made transparent at t2.
C8_LowerThresholdRemovesMore ==
    ResolvedNoMask =>
        \A t \in Thresholds :
            LET other == Marked(FloodFill(img.data, img.width, img.height, t))
            IN  /\ threshold <= t => other \subseteq Marked(toRemove)
                /\ t <= threshold => Marked(toRemove) \subseteq other

\* a run whose removed set strictly includes the non-empty set removed at a
\* higher threshold
C8_Witness ==
    /\ ResolvedNoMask
    /\ \E t \in Thresholds :
          LET other == Marked(FloodFill(img.data, img.width, img.height, t))
          IN  threshold < t /\ other # {} /\ other # Marked(toRemove)

-----------------------------------------------------------------------------
(***************************************************************************)
(* Properties of createGrid8                                               *)
(***************************************************************************)
\* C9: for cellWidth, cellHeight > 0 and 1 to 8 source images, createGrid8
\* produces a canvas of exactly 2*cellWidth by 4*cellHeight, whatever the
\* number and the sizes of the sources.
C9_GridCanvasSize ==
    (gridPc # "call" /\ Len(images) \in 1 .. GridSlots) =>
        /\ canvas.width = 2 * cellWidth
        /\ canvas.height = 4 * cellHeight
        /\ gridPromise = "resolved" =>
              /\ gridResult.width = 2 * cellWidth
              /\ gridResult.height = 4 * cellHeight

\* a grid resolved from sources that are not of the cell's size
C9_Witness ==
    /\ gridPromise = "resolved"
    /\ Len(images) \in 2 .. GridSlots
    /\ images[1].ok
    /\ images[1].width # cellWidth
    /\ images[1].height # cellHeight
    /\ cellWidth # cellHeight
    /\ gridResult.drawn # {}

\* C10: createGrid8 with no source image rejects with the empty-input
\* error, never resolves with a canvas, and starts no image load.
C10_EmptyInputRejects ==
    (gridPc \notin {"idle", "call"} /\ Len(images) = 0) =>
        /\ gridPc = "done"
        /\ gridPromise = "rejected"
        /\ gridError = EmptyInputError
        /\ gridResult = NoResult
        /\ loading = {}
        /\ loadedCount = 0

\* the call with an empty list has been made
C10_Witness ==
    /\ gridPc = "done"
    /\ images = <<>>
    /\ gridPromise = "rejected"

\* the cell of index k, in units of 1/den pixel: [x0, x1, y0, y1]
CellRect(k, den) ==
    [x0 |-> den * (k % 2) * cellWidth, x1 |-> den * ((k % 2) + 1) * cellWidth,
     y0 |-> den * (k \div 2) * cellHeight,
     y1 |-> den * ((k \div 2) + 1) * cellHeight]

\* the rectangle of draw call d covers part of cell k
CoversCell(d, k) ==
    LET c == CellRect(k, d.den)
    IN  /\ d.offsetX < c.x1 /\ d.offsetX + d.scaledWidth > c.x0
        /\ d.offsetY < c.y1 /\ d.offsetY + d.scaledHeight > c.y0

\* C11: the image at index i (0..7) is drawn only inside the cell at row
\* i div 2, col i mod 2: scaled uniformly to at most the cell (equal to it
\* in one dimension), centred, covering no other cell; a cell without a
\* source image stays white, and an image at index >= 8 is never drawn.
\* (Sizes and offsets are exact fractions; the rounding of the division in
\* double precision is not modelled.)
C11_DrawnInsideOwnCell ==
    gridPc \in {"loading", "done"} =>
        /\ \A d \in canvas.drawn :
              LET c == CellRect(d.index, d.den)
                  im == images[d.index + 1]
              IN  /\ d.index \in 0 .. 7
                  /\ d.index < Len(images)
                  /\ d.scaledWidth <= d.den * cellWidth
                  /\ d.scaledHeight <= d.den * cellHeight
                  /\ \/ d.scaledWidth = d.den * cellWidth
                     \/ d.scaledHeight = d.den * cellHeight
                  /\ d.scaledWidth * im.height = d.scaledHeight * im.width
                  /\ d.offsetX - c.x0 = c.x1 - (d.offsetX + d.scaledWidth)
                  /\ d.offsetY - c.y0 = c.y1 - (d.offsetY + d.scaledHeight)
                  /\ d.offsetX >= c.x0 /\ d.offsetY >= c.y0
                  /\ \A k \in 0 .. 7 : CoversCell(d, k) => k = d.index
        /\ \A k \in 0 .. 7 :
              (k >= Len(images) \/ ~images[k + 1].ok) =>
                  ~ \E d \in canvas.drawn : CoversCell(d, k)

\* nine sources, one of them broken, resolved; an image narrower than its
\* cell was drawn
C11_Witness ==
    /\ gridPromise = "resolved"
    /\ Len(images) = 9
    /\ \E k \in 1 .. 8 : ~images[k].ok
    /\ \E d \in gridResult.drawn :
          d.index = 7 /\ d.scaledWidth < d.den * cellWidth

\* C12: a source whose load fails counts as loaded, leaves its cell white
\* and does not abort; in every order of the callbacks of the min(n, 8)
\* sources the promise resolves exactly once, only after each of them was
\* drawn or failed, and never rejects for n >= 1.
C12_BestEffortResolvesOnce ==
    (gridPc \in {"loading", "done"} /\ Len(images) >= 1) =>
        LET total == IF Len(images) < 8 THEN Len(images) ELSE 8
        IN  /\ gridPromise # "rejected"
            /\ resolveCalls <= 1
            /\ gridPromise = "resolved" <=> resolveCalls = 1
            /\ loadedCount + Cardinality(loading) = total
            /\ gridPromise = "pending" => loading # {}
            /\ gridPromise = "resolved" =>
                  /\ loading = {}
                  /\ loadedCount = total
                  /\ \A k \in 0 .. total - 1 :
                        images[k + 1].ok <=>
                            \E d \in gridResult.drawn : d.index = k

\* a grid resolved although one of its sources failed to load
C12_Witness ==
    /\ gridPromise = "resolved"
    /\ resolveCalls = 1
    /\ Len(images) >= 3
    /\ \E k \in 1 .. Len(images) : k <= 8 /\ ~images[k].ok
    /\ Cardinality(gridResult.drawn) >= 2

-----------------------------------------------------------------------------
(***************************************************************************)
(* Properties of splitGrid8 and removeGridLines                            *)
(***************************************************************************)
\* the pixels of the grid that lie in the cell k = 2 * row + col
CellPixels(k, cw, ch) ==
    {((k \div 2) * ch + y) * (cw * 2) + ((k % 2) * cw + x) :
        x \in 0 .. cw - 1, y \in 0 .. ch - 1}

\* C13: splitGrid8 returns exactly 8 cells of cellWidth x cellHeight; cell
\* k = 2*row + col holds the pixels of the rectangle (col*cellWidth,
\* row*cellHeight, cellWidth, cellHeight) of the seam-erased grid; the 8
\* rectangles lie inside the grid, are pairwise disjoint and cover it.
C13_CellsAreExactRectangles ==
    splitPromise = "resolved" =>
        LET cw == splitCellWidth
            ch == splitCellHeight
        IN  /\ Len(cells) = 8
            /\ \A k \in 0 .. 7 :
                  /\ cells[k + 1].width = cw
                  /\ cells[k + 1].height = ch
                  /\ DOMAIN cells[k + 1].data = Pixels(cw, ch)
                  /\ \A x \in 0 .. cw - 1, y \in 0 .. ch - 1 :
                        cells[k + 1].data[y * cw + x] =
                            cleaned.data[((k \div 2) * ch + y) * (cw * 2)
                                         + ((k % 2) * cw + x)]
                  /\ CellPixels(k, cw, ch) \subseteq Pixels(cw * 2, ch * 4)
                  /\ \A m \in 0 .. 7 :
                        m # k =>
                            CellPixels(k, cw, ch) \cap CellPixels(m, cw, ch)
                                = {}
            /\ UNION {CellPixels(k, cw, ch) : k \in 0 .. 7}
                   = Pixels(cw * 2, ch * 4)

\* a grid of sources of two colours was split
C13_Witness ==
    /\ splitPromise = "resolved"
    /\ splitCellWidth = 2
    /\ splitCellHeight = 3
    /\ cells[1].data # cells[2].data
    /\ cells[8].data # cells[2].data

\* C14: no cell is cropped before removeGridLines has completed on the whole
\* grid; the cells are cropped from the bitmap removeGridLines resolved
\* with, never from the input; when removeGridLines fails no cell is
\* produced and splitGrid8 rejects.
C14_SeamEraserRunsFirst ==
    /\ splitPc \in {"call", "erasing"} =>
          /\ linesPromise = "pending"
          /\ cells = NoCells
          /\ sourceImg = NoResult
    /\ sourceImg # NoResult =>
          /\ linesPromise = "resolved"
          /\ sourceImg = cleaned
    /\ cells # NoCells =>
          /\ sourceImg # NoResult
          /\ \A k \in 0 .. 7 :
                \A i \in Pixels(splitCellWidth, splitCellHeight) :
                    \E p \in CellPixels(k, splitCellWidth, splitCellHeight) :
                        cells[k + 1].data[i] = sourceImg.data[p]
    /\ linesPromise = "rejected" =>
          /\ cells = NoCells
          /\ splitPromise # "resolved"
          /\ splitPc = "done" => splitPromise = "rejected"

\* the cells of a grid in which the eraser rewrote pixels
C14_Witness ==
    /\ splitPromise = "resolved"
    /\ gridImage.width = splitCellWidth * 2
    /\ gridImage.height = splitCellHeight * 4
    /\ cleaned.data # gridImage.data
    /\ sourceImg = cleaned

\* what createGrid8 placed in cell k: the source (it fills the cell at
\* scale 1), or the white fill
Placed(k) ==
    IF k < Len(composedFrom) THEN composedFrom[k + 1].data
    ELSE [i \in Pixels(splitCellWidth, splitCellHeight) |-> White]

\* the pixel (x, y) of the grid is in no band around a seam
OutsideBands(x, y, cw, ch) ==
    /\ Abs(x - cw) > 5
    /\ \A n \in 1 .. 3 : Abs(y - n * ch) > 5

\* C15 (as stated): splitting a freshly composed grid returns in cell k
\* exactly the pixels createGrid8 placed for image k.
C15_RoundTripExact ==
    (splitPromise = "resolved" /\ composedFrom # NotComposed) =>
        \A k \in 0 .. 7 : cells[k + 1].data = Placed(k)

\* C15 (amended): splitting a freshly composed grid returns 8 cells in
\* row-major order; cell k holds the pixels createGrid8 placed for image k
\* at every pixel farther than 5 pixels from the seams, and the alpha of
\* every pixel; within 5 pixels of a seam the colour may be rewritten.
C15_RoundTripOutsideBands ==
    (splitPromise = "resolved" /\ composedFrom # NotComposed) =>
        LET cw == splitCellWidth
            ch == splitCellHeight
        IN  /\ Len(cells) = 8
            /\ \A k \in 0 .. 7 :
                  \A x \in 0 .. cw - 1, y \in 0 .. ch - 1 :
                      LET got == cells[k + 1].data[y * cw + x]
                          put == Placed(k)[y * cw + x]
                      IN  /\ got.a = put.a
                          /\ OutsideBands((k % 2) * cw + x,
                                          (k \div 2) * ch + y, cw, ch)
                                => got = put

\* a wide grid whose last cell came back changed inside the bands, with
\* pixels outside the bands in every cell
C15_Witness ==
    /\ splitPromise = "resolved"
    /\ composedFrom # NotComposed
    /\ <<splitCellWidth, splitCellHeight>> = WideCell
    /\ composedFrom[8].data[0] = Black
    /\ cells[8].data # Placed(7)
    /\ \A k \in 0 .. 7 :
          \E x \in 0 .. splitCellWidth - 1, y \in 0 .. splitCellHeight - 1 :
              OutsideBands((k % 2) * splitCellWidth + x,
                           (k \div 2) * splitCellHeight + y,
                           splitCellWidth, splitCellHeight)

\* the input has another size than 2*cellWidth x 4*cellHeight
OtherSize ==
    /\ gridImage.ok
    /\ \/ gridImage.width # splitCellWidth * 2
       \/ gridImage.height # splitCellHeight * 4

\* C16: a decodable input of another size than 2*cellWidth x 4*cellHeight
\* is never rejected: it is stretched to that size, removeGridLines
\* resolves with a bitmap of exactly that size and splitGrid8 with 8 cells
\* of cellWidth x cellHeight.
C16_OtherSizeIsStretched ==
    OtherSize =>
        LET cw == splitCellWidth
            ch == splitCellHeight
        IN  /\ linesPromise # "rejected"
            /\ splitPromise # "rejected"
            /\ splitPc \in {"await", "loading", "done"} =>
                  /\ linesPromise = "resolved"
                  /\ cleaned.width = cw * 2
                  /\ cleaned.height = ch * 4
                  /\ DOMAIN cleaned.data = Pixels(cw * 2, ch * 4)
            /\ splitPc = "done" =>
                  /\ splitPromise = "resolved"
                  /\ Len(cells) = 8
                  /\ \A k \in 1 .. 8 :
                        /\ cells[k].width = cw
                        /\ cells[k].height = ch
                        /\ DOMAIN cells[k].data = Pixels(cw, ch)

\* a bitmap of 3 x 1 pixels split into cells of 2 x 2
C16_Witness ==
    /\ OtherSize
    /\ gridImage.width = 3
    /\ gridImage.height = 1
    /\ splitCellWidth = 2
    /\ splitCellHeight = 2
    /\ splitPromise = "resolved"

\* the bitmap the eraser receives
EraserInput ==
    SizedTo(gridImage, splitCellWidth * 2, splitCellHeight * 4)

\* no pixel of a band is one the eraser rewrites: none in the centre of a
\* band is darker than 200 on a light background, none differs from a
\* flanking pixel by more than 15
SeamFree(d, cw, ch) ==
    LET w == cw * 2
        h == ch * 4
        light == IsLightBg(CornerBackground(d, w, h))
        calm(p, q) == /\ Sum3(p) - Sum3(q) <= 45
                      /\ Sum3(q) - Sum3(p) <= 45
        clear(p, offset) ==
            ~(light /\ offset >= -3 /\ offset <= 3 /\ Sum3(p) < 600)
    IN  /\ \A y \in 0 .. h - 1, x \in 0 .. w - 1 :
              (x - cw >= -5 /\ x - cw <= 5) =>
                  /\ clear(d[y * w + x], x - cw)
                  /\ calm(d[y * w + x], d[y * w + Max(0, x - 5)])
                  /\ calm(d[y * w + x], d[y * w + Min(w - 1, x + 5)])
        /\ \A n \in 1 .. 3, y \in 0 .. h - 1, x \in 0 .. w - 1 :
              (y - n * ch >= -5 /\ y - n * ch <= 5) =>
                  /\ clear(d[y * w + x], y - n * ch)
                  /\ calm(d[y * w + x], d[Max(0, y - 5) * w + x])
                  /\ calm(d[y * w + x], d[Min(h - 1, y + 5) * w + x])

\* C17 (as stated): for any grid bitmap x of the expected size,
\* eraseSeams(eraseSeams(x)) = eraseSeams(x).
C17_EraseSeamsIdempotent ==
    linesPromise = "resolved" =>
        EraseSeams(cleaned.data, splitCellWidth, splitCellHeight)
            = cleaned.data

\* C17 (amended): on a seam-free grid bitmap x (no band pixel darker than
\* 200 in the centre of a band on a light background, none differing from a
\* flanking pixel by more than 15) eraseSeams changes nothing, so
\* eraseSeams(eraseSeams(x)) = eraseSeams(x) = x; on other bitmaps a
\* further call may change pixels again.
C17_SeamFreeIsFixedPoint ==
    (linesPromise = "resolved"
     /\ SeamFree(EraserInput, splitCellWidth, splitCellHeight)) =>
        /\ cleaned.data = EraserInput
        /\ EraseSeams(cleaned.data, splitCellWidth, splitCellHeight)
               = cleaned.data

\* a seam-free grid of white and cream cells went through the eraser
C17_Witness ==
    /\ linesPromise = "resolved"
    /\ composedFrom # NotComposed
    /\ Len(composedFrom) = 8
    /\ splitCellWidth = 3
    /\ splitCellHeight = 3
    /\ composedFrom[1].data[0] = White
    /\ composedFrom[8].data[0] = Cream
    /\ SeamFree(EraserInput, splitCellWidth, splitCellHeight)

-----------------------------------------------------------------------------
(***************************************************************************)
(* App.jsx: handleGenerateStickers, the slider of step 7, handleSplitGrids *)
(***************************************************************************)

\* C18: for the sticker count of the request, handleSplitGrids has as many
\* grids as ceil(count / 8) and, once every grid is split, grid g has
\* contributed its first min(8, count - 8g) cells in order: the cut stickers
\* are `count` in number and sticker i is cell i mod 8 of grid i div 8, so
\* no padding cell is among them.
C18_CutStickersMatchCount ==
    cutPc = "main" =>
        /\ Len(cutInput) = GridCount(cutCount)
        /\ Len(cutImages) = cutCount
        /\ \A i \in 1 .. Len(cutImages) :
              /\ (i - 1) \div GridCells < Len(cutInput)
              /\ cutImages[i] =
                    CutCells(cutInput[(i - 1) \div GridCells + 1])
                            [((i - 1) % GridCells) + 1]

\* C19: the grids are generated one after the other: at most one
\* generateGrid8Image call is pending; a call for grid g is pending only
\* when the images of the grids 0 .. g-1 have all been received, in order;
\* a call for a grid after the first is made only after the wait that
\* follows the previous grid, and none is pending during that wait.
C19_GridsGeneratedSequentially ==
    /\ Cardinality(inFlight) <= 1
    /\ \A g \in inFlight :
          /\ g = gridIndex
          /\ g < GridCount(genCount)
          /\ Len(allGridImages) = g
          /\ \A i \in 1 .. g : allGridImages[i].index = i - 1
          /\ g > 0 => cooled
    /\ genPc = "cooldown" => inFlight = {}

\* the request for the second grid is pending, after a failed attempt,
\* for a run of more than 8 stickers
C19_Witness ==
    /\ genCount > GridCells
    /\ 1 \in inFlight
    /\ retryCount >= 1
    /\ cooled

\* C20: grid image, then background removal, then split: every bitmap
\* handed to splitGrid8 is an output of removeBackgroundSimple on a
\* generated grid image, every cut sticker is a cell of such a bitmap, and
\* removeBackgroundSimple is only ever applied to generated grid images
\* and to the main and tab images, never to a cell.
C20_PipelineOrder ==
    /\ \A i \in 1 .. Len(cutInput) :
          /\ cutInput[i].kind = "processed"
          /\ cutInput[i].of.kind = "grid"
    /\ \A i \in 1 .. Len(allCutImages) :
          /\ allCutImages[i].kind = "cell"
          /\ allCutImages[i].of.kind = "processed"
          /\ allCutImages[i].of.of.kind = "grid"
    /\ \A i \in 1 .. Len(cutImages) :
          /\ cutImages[i].kind = "cell"
          /\ cutImages[i].of.kind = "processed"
          /\ cutImages[i].of.of.kind = "grid"
    /\ \A i \in 1 .. Len(initialProcessed) :
          initialProcessed[i].of.kind = "grid"
    /\ \A i \in 1 .. Len(processedGridImages) :
          /\ processedGridImages[i].kind = "processed"
          /\ processedGridImages[i].of.kind = "grid"
    /\ \A run \in bgRuns : \A i \in 1 .. Len(run.grids) :
          run.grids[i].kind = "grid"
    /\ mainImage # NoImage => mainImage.of.kind = "main"
    /\ tabImage # NoImage => tabImage.of.kind = "tab"

\* two grids went through background removal and were cut into 16 stickers
C20_Witness ==
    /\ cutPc = "main"
    /\ Len(cutInput) = 2
    /\ Len(cutImages) = 16
    /\ cutImages[16].of = cutInput[2]

-----------------------------------------------------------------------------
(***************************************************************************)
(* Properties of generateImageDescriptionsWithText                         *)
(***************************************************************************)

\* C21: whenever generateImageDescriptionsWithText returns, it returns
\* exactly `count` items, their texts are pairwise distinct, and no text is
\* one of the excluded texts, whatever the model answered.
C21_ReturnsCountDistinctTexts ==
    descPc = "returned" =>
        /\ Len(descResult) = descCount
        /\ \A i, j \in 1 .. Len(descResult) :
              i # j => descResult[i] # descResult[j]
        /\ \A i \in 1 .. Len(descResult) : descResult[i] \notin excludedTexts

\* one item came out of the answers, the second was added with the text
\* '貼2', which is excluded, as is '貼21': it is returned as '貼22'
C21_Witness ==
    /\ descPc = "returned"
    /\ descCount = 2
    /\ excludedTexts = {TextTie2, TextTie21}
    /\ items = <<TextA>>
    /\ descResult = <<TextA, <<"tie", "2", "2">>>>

\* C30: in the retry loop an answer that comes after its attempt timed out
\* is never used: at most one generateContent request is outstanding, at
\* most 5 attempts are made, and the text that is parsed is the answer of
\* an attempt that ended before its timer fired.
C30_LateResponseNeverUsed ==
    /\ Cardinality(pendingRequests) <= 1
    /\ descRetryCount <= descMaxRetries
    /\ \A a \in pendingRequests : a <= descMaxRetries
    /\ descPc \in {"parse", "additional", "returned"} => ~text.late

-----------------------------------------------------------------------------
(***************************************************************************)
(* Properties of removeGridLines, pixel by pixel                           *)
(***************************************************************************)

\* C22: eraseSeams runs exactly two passes, the second on the output of the
\* first: its result is the single-pass transform (background estimated
\* from the corners, then the vertical seam scan, then the three horizontal
\* seam scans) applied to the input, and then applied again to that result.
C22_TwoPassesEachEstimating ==
    erPc = "done" =>
        /\ erPass = 2
        /\ LET w == erCellWidth * 2
               h == erCellHeight * 4
               OnePass(d) ==
                   LET bg == CornerBackground(d, w, h)
                   IN  SeamPass(d, [cw |-> erCellWidth, ch |-> erCellHeight,
                                    w |-> w, h |-> h, bg |-> bg,
                                    light |-> IsLightBg(bg)])
           IN  erData = OnePass(OnePass(erInput))

\* C22 (amended): eraseSeams estimates the background once, from the
\* corners of its input, and runs exactly two passes of the scans (the
\* vertical seam, then the three horizontal seams), the second on the output
\* of the first, both with that estimate.  When the cells are wider and
\* taller than 5 pixels the corners lie outside the seam bands, and the
\* result is also the single-pass transform, estimate included, applied
\* twice.
C22_TwoPassesOneEstimate ==
    erPc = "done" =>
        /\ erPass = 2
        /\ LET w == erCellWidth * 2
               h == erCellHeight * 4
               Scans(d, bg) ==
                   SeamPass(d, [cw |-> erCellWidth, ch |-> erCellHeight,
                                w |-> w, h |-> h, bg |-> bg,
                                light |-> IsLightBg(bg)])
               bg0 == CornerBackground(erInput, w, h)
               first == Scans(erInput, bg0)
           IN  /\ erBg = bg0
               /\ erData = Scans(first, bg0)
               /\ (erCellWidth > 5 /\ erCellHeight > 5) =>
                      erData = Scans(first, CornerBackground(first, w, h))

\* both passes ran on a grid with cells of 7 x 12 pixels, one of them
\* black, and changed it
C22_Witness ==
    /\ erPc = "done"
    /\ erPass = 2
    /\ erCellWidth = 7
    /\ erCellHeight = 12
    /\ erInput[0] = Black
    /\ erData # erInput

\* C23: within a pass every pixel within 5 pixels of a seam is rewritten in
\* place, in scan order, by one rule.  If the background is light, the
\* pixel is within 3 pixels of the seam centre and its average is below
\* 200, its RGB becomes the estimated background colour and it is not
\* smoothed.  Otherwise, if its average differs by more than 15 from that
\* of the pixel 5 pixels to either side across the seam (coordinate clamped
\* to the image), its RGB becomes the rounded inverse-distance-weighted
\* blend of those two pixels.  Otherwise it stays as it is.  Alpha and
\* every other pixel are left alone.
C23_PixelRule ==
    [][(erPc \in {"vertical", "horizontal"}) =>
       (LET w == erCellWidth * 2
            h == erCellHeight * 4
            across == erPc = "vertical"
            x == IF across THEN erCellWidth + erOffset ELSE erX
            y == IF across THEN erY ELSE erLine * erCellHeight + erOffset
            i == y * w + x
            lo == IF across THEN y * w + Max(0, x - 5)
                  ELSE Max(0, y - 5) * w + x
            hi == IF across THEN y * w + Min(w - 1, x + 5)
                  ELSE Min(h - 1, y + 5) * w + x
            distLo == IF across THEN x - Max(0, x - 5) ELSE y - Max(0, y - 5)
            distHi == IF across THEN Min(w - 1, x + 5) - x
                      ELSE Min(h - 1, y + 5) - y
            sum(p) == p.r + p.g + p.b
            far(p, q) == sum(p) - sum(q) > 45 \/ sum(q) - sum(p) > 45
            mix(a, b) == (2 * (a * distHi + b * distLo) + distLo + distHi)
                            \div (2 * (distLo + distHi))
            cur == erData[i]
            new == IF /\ sum(erBg) > 600
                      /\ erOffset \in -3 .. 3
                      /\ sum(cur) < 600
                   THEN [cur EXCEPT !.r = erBg.r, !.g = erBg.g,
                                    !.b = erBg.b]
                   ELSE IF far(cur, erData[lo]) \/ far(cur, erData[hi])
                   THEN [cur EXCEPT !.r = mix(erData[lo].r, erData[hi].r),
                                    !.g = mix(erData[lo].g, erData[hi].g),
                                    !.b = mix(erData[lo].b, erData[hi].b)]
                   ELSE cur
        IN  (erOffset \in -5 .. 5) /\
            (erData' = (IF x \in 0 .. w - 1 /\ y \in 0 .. h - 1
                        THEN [erData EXCEPT ![i] = new]
                        ELSE erData)))]_vars

\* on a light grid with cells of 3 x 3 pixels, a black pixel has been
\* given the background colour and another pixel a blend that is neither
\* its own colour nor the background
C23_Witness ==
    /\ erPc = "horizontal"
    /\ erCellWidth = 3
    /\ erBg = [r |-> 255, g |-> 255, b |-> 255]
    /\ \E i \in DOMAIN erData :
          erInput[i] = Black /\ erData[i] = White
    /\ \E i \in DOMAIN erData :
          /\ erData[i] # erInput[i]
          /\ erData[i] # White

\* C27: for an input of 2*cellWidth x 4*cellHeight pixels eraseSeams
\* changes nothing outside the seam bands: a pixel farther than 5 pixels
\* from the vertical seam and from each horizontal seam has the RGBA of the
\* input, and the alpha of every pixel is that of the input.
C27_OnlyBandsChange ==
    erPc \in {"vertical", "horizontal", "endPass", "done"} =>
        \A i \in DOMAIN erData :
            /\ erData[i].a = erInput[i].a
            /\ OutsideBands(XOf(i, erCellWidth * 2), YOf(i, erCellWidth * 2),
                            erCellWidth, erCellHeight) =>
                  erData[i] = erInput[i]

\* a grid with cells of 7 x 12 pixels and a grey cell went through both
\* passes: grey pixels outside the bands, a pixel rewritten inside them
C27_Witness ==
    /\ erPc = "done"
    /\ erCellWidth = 7
    /\ \E i \in DOMAIN erData :
          /\ OutsideBands(XOf(i, 14), YOf(i, 14), 7, 12)
          /\ erInput[i] = Grey
    /\ \E i \in DOMAIN erData :
          /\ ~OutsideBands(XOf(i, 14), YOf(i, 14), 7, 12)
          /\ erData[i] # erInput[i]

-----------------------------------------------------------------------------
(***************************************************************************)
(* App.jsx: retries, failures, the threshold slider, the download          *)
(***************************************************************************)

\* C24: for each grid handleGenerateStickers calls generateGrid8Image at
\* most 5 times.  A call is made only when fewer than 5 calls for the grid
\* have failed and the grid has no image yet; a success ends the calls for
\* the grid; a failure that is not the 5th is followed by a wait and only
\* then by the next call; the 5th failure ends the run (loading is reset,
\* nothing is pending), so no later grid is requested.
C24_AtMostFiveAttempts ==
    [][/\ retryCount' < 5
       /\ (genPc # "awaitGrid" /\ genPc' = "awaitGrid") =>
             (/\ genPc = "request"
              /\ inFlight' = {gridIndex}
              /\ Len(allGridImages) = gridIndex)
       /\ (genPc = "awaitGrid" /\ genPc' # "awaitGrid") =>
             (\/ /\ Len(allGridImages') = Len(allGridImages) + 1
                 /\ inFlight' = {}
                 /\ \/ genPc' = "cooldown" /\ gridIndex' = gridIndex + 1
                    \/ genPc' = "removing"
              \/ /\ retryCount < 4
                 /\ retryCount' = retryCount + 1
                 /\ genPc' = "backoff"
                 /\ inFlight' = {}
                 /\ UNCHANGED <<allGridImages, gridIndex>>
              \/ /\ retryCount = 4
                 /\ genPc' = "idle"
                 /\ ~appLoading'
                 /\ inFlight' = {})
       /\ (genPc # "request" /\ genPc' = "request" /\ retryCount' > 0) =>
             genPc = "backoff"
      ]_vars

\* the fifth call for the first of two grids is pending
C24_Witness ==
    /\ genPc = "awaitGrid"
    /\ genCount = 16
    /\ gridIndex = 0
    /\ retryCount = 4
    /\ inFlight = {0}

\* the step with which handleGenerateStickers returns
Gen_Ends == genPc # "idle" /\ genPc' = "idle"

\* that step is the one of lines 323-324: every grid went through
\* removeBackgroundSimple
Gen_Succeeds ==
    /\ genPc = "removing"
    /\ Len(initialProcessed) + 1 = Len(allGridImages)
    /\ allGridImages[Len(allGridImages)].ok

\* C25: handleGenerateStickers always ends with loading = false; when it
\* fails, gridImages, processedGridImages, cutImages and currentStep are what
\* they were before the run; when it succeeds gridImages and
\* processedGridImages both have ceil(count / 8) images.
C25_FailureKeepsState ==
    [][Gen_Ends =>
          (/\ ~appLoading'
           /\ Gen_Succeeds =>
                 (/\ Len(gridImages') = GridCount(genCount)
                  /\ Len(processedGridImages') = GridCount(genCount))
           /\ ~Gen_Succeeds =>
                 (/\ gridImages' = genGridImages
                  /\ UNCHANGED <<processedGridImages, cutImages,
                                 currentStep>>))
      ]_vars

-----------------------------------------------------------------------------
(***************************************************************************)
(* removeBackgroundSimple: the queue of the flood fill                     *)
(***************************************************************************)

\* C26: while the flood fill of removeBackgroundSimple runs, every pixel in
\* the queue is marked both in toRemove and in visited, a pixel marked in
\* toRemove is marked in visited, and no pixel is enqueued twice: the pixels
\* dequeued so far and the pixels still queued are, one for one, the pixels
\* marked in toRemove.  So at most width * height pixels are dequeued, and
\* the loop ends.
C26_EachPixelEnqueuedOnce ==
    pc = "bfs" =>
       /\ \A k \in 1 .. Len(queue) :
             /\ queue[k].x \in 0 .. width - 1
             /\ queue[k].y \in 0 .. height - 1
             /\ toRemove[queue[k].y * width + queue[k].x] = 1
             /\ visited[queue[k].y * width + queue[k].x] = 1
       /\ \A j, k \in 1 .. Len(queue) : queue[j] = queue[k] => j = k
       /\ \A i \in Pixels(width, height) : toRemove[i] = 1 => visited[i] = 1
       /\ dequeued + Len(queue) =
             Cardinality({i \in Pixels(width, height) : toRemove[i] = 1})
       /\ dequeued <= width * height

\* every pixel of a bitmap of four or more pixels was dequeued, and one of
\* them was not on the border: it was reached from more than one neighbour
C26_Witness ==
    /\ pc = "bfs"
    /\ queue = <<>>
    /\ width = 3 /\ height = 3
    /\ dequeued = width * height

-----------------------------------------------------------------------------
(***************************************************************************)
(* App.jsx: the runs of background removal                                 *)
(***************************************************************************)

\* C28: the runs of background removal that the threshold slider (and the
\* apply button) start leave no stale result: when the last run in flight
\* finishes, processedGridImages is removeBackgroundSimple of the current
\* gridImages at the current backgroundThreshold; and processingBackground
\* is true as long as a run is in flight.
C28_NoStaleBackground ==
    [][/\ (bgRuns # {} /\ bgRuns' = {} /\ AllDecodable(gridImages')) =>
             processedGridImages' =
                ProcessAll(gridImages', backgroundThreshold')
       /\ bgRuns' # {} => processingBackground'
      ]_vars

-----------------------------------------------------------------------------
(***************************************************************************)
(* App.jsx: the download                                                   *)
(***************************************************************************)
\* the download button is rendered: the conditions of lines 844 and 901
DownloadShown ==
    /\ Len(cutImages) > 0
    /\ currentStep >= 8
    /\ currentStep = 9
    /\ mainImage # NoImage
    /\ tabImage # NoImage

\* C29: in every state with currentStep = 9, cutImages is not empty and
\* mainImage and tabImage are both set, each what removeBackgroundSimple made
\* of the generated main and tab image; so the download button, which is
\* all that calls downloadAsZip, passes a non-empty list of stickers, a
\* main image and a tab image.
C29_Step9HasEverything ==
    /\ currentStep = 9 =>
          /\ Len(cutImages) > 0
          /\ \E t \in SliderValues : mainImage = Processed(MainImage, t)
          /\ \E t \in SliderValues : tabImage = Processed(TabImage, t)
          /\ DownloadShown
    /\ DownloadShown => currentStep = 9

\* sixteen stickers, the main image and the tab image are ready
C29_Witness ==
    /\ currentStep = 9
    /\ cutPc = "idle"
    /\ ~appLoading
    /\ Len(cutImages) = 16
    /\ DownloadShown

=============================================================================
